---- MODULE Spec2Model ----
(***************************************************************************)
(* A model of src/src/engine/engine_util_solve.c: dense and sparse         *)
(* Cholesky, sparse LU, the 3x3 eigendecomposition (Jacobi loop and sort)  *)
(* and the ellipsoid QCQP solvers.                                         *)
(*                                                                         *)
(* Arrays are 0-based functions, as in the C source.  The sparse routines *)
(* and mju_cholFactor run on fixed-point numbers: the integer v stands for *)
(* the real v / Scale, products and quotients are rounded to the nearest   *)
(* unit, and the threshold mjMINVAL (1e-15), below the resolution, is the  *)
(* smallest positive value, one unit.  mju_cholUpdate, the QCQP solvers    *)
(* and mju_eig3 run on doubles, each operation rounded as IEEE 754 rounds  *)
(* it, so that the tests against 1e-15, 1e-10 and 1e-12 fall as they fall  *)
(* in the compiled code.                                                   *)
(*                                                                         *)
(* Every routine has a specification of its own: SpecFS, SpecUS, SpecLU,   *)
(* SpecSolveLU, SpecChol, SpecCholUpdate, SpecEig3, SpecEigSort and        *)
(* SpecQCQP; SpecLoops runs any one of the three iterative routines.       *)
(* The variables carry the names of the source's arguments and locals; a   *)
(* routine's specification leaves the variables it does not use at their   *)
(* idle value.                                                             *)
(***************************************************************************)
EXTENDS Integers, Sequences, FiniteSets, TLC

VARIABLES
  pc,         \* position in the routine being run
  err,        \* message handed to mju_error, "" when none
  pstack,     \* d->pstack: top of the scratch arena
  mark,       \* _mark of mjMARKSTACK
  pstack0,    \* d->pstack at call entry
  n,          \* dimension
  mat,        \* value buffer (dense row-major, or sparse values)
  rownnz,     \* sparse: stored entries per row
  rowadr,     \* sparse: start address of each row
  colind,     \* sparse: column index of each stored entry
  mat0,       \* mat at call entry
  rownnz0,    \* rownnz at call entry
  colind0,    \* colind at call entry
  mindiag,    \* clamp threshold argument
  rank,       \* rank counter
  r,          \* row loop index (sparse Cholesky); radius r (QCQP)
  i,          \* loop index
  j,          \* loop index
  x,          \* mju_cholUpdateSparse: values of the sparse vector x
  x_ind,      \* mju_cholUpdateSparse: indices of x
  x_nnz,      \* mju_cholUpdateSparse: number of entries of x on entry
  flg_plus,   \* mju_cholUpdateSparse: update (1) or downdate (0)
  new_nnz,    \* mju_cholUpdateSparse: result of the row combine
  LU,         \* mju_factorLUSparse: value buffer
  LU0,        \* LU at call entry
  remaining,  \* mju_factorLUSparse: scratch counters
  vec,        \* mju_solveLUSparse: right-hand side
  eigval,     \* mju_eig3: eigenvalues
  eigval0,    \* eigval as the Jacobi loop left it
  quat,       \* mju_eig3: the quaternion quat
  eigvec,     \* mju_eig3: the rotation matrix of quat
  D,          \* mju_eig3: eigvec' * mat * eigvec for the current quat
  rk,         \* mju_eig3: row of the selected off-diagonal entry
  ck,         \* mju_eig3: column of the selected off-diagonal entry
  rotk,       \* mju_eig3: rotation axis
  Ain,        \* QCQP: argument A
  bin,        \* QCQP: argument b
  d,          \* QCQP: argument d
  A,          \* QCQP: scaled A
  bvec,       \* QCQP: scaled b
  la,         \* QCQP: the multiplier lambda
  iter,       \* QCQP: Newton iteration counter; mju_eig3: Jacobi iteration counter
  res,        \* QCQP: result vector (v1, v2, v3 of the 2D and 3D variants)
  ret,        \* QCQP: value returned
  variant,    \* QCQP: the routine being run
  la_moved,   \* QCQP: whether a Newton update has been applied to la
  taken,      \* QCQP: the exit taken, and at which iteration
  first       \* QCQP: outcome of the 2D/3D variant on the same input

\* variables of mju_cholUpdateSparse alone
grpUS == <<x, x_ind, x_nnz, flg_plus, new_nnz>>

\* variables of mju_factorLUSparse and mju_solveLUSparse alone
grpLU == <<LU, LU0, remaining, vec>>

\* the scratch arena
grpArena == <<pstack, mark, pstack0>>

\* variables of mju_eig3 alone
grpEig == <<eigval, eigval0, quat, eigvec, D, rk, ck, rotk>>

\* variables of the QCQP solvers alone
grpQ == <<Ain, bin, d, A, bvec, la, iter, res, ret, variant, la_moved, taken, first>>

\* variables of the dense routines
grpDense == <<grpEig, grpQ>>

\* variables of the sparse routines alone
grpSparse == <<rownnz, rowadr, colind, rownnz0, colind0, grpUS, grpLU, grpArena>>

vars == <<pc, err, pstack, mark, pstack0, n, mat, rownnz, rowadr, colind,
          mat0, rownnz0, colind0, mindiag, rank, r, i, j, grpUS, grpLU, grpDense>>

IdleUS == x = 0 /\ x_ind = 0 /\ x_nnz = 0 /\ flg_plus = 0 /\ new_nnz = 0

IdleLU == LU = 0 /\ LU0 = 0 /\ remaining = 0 /\ vec = 0

IdleArena == pstack = 0 /\ mark = 0 /\ pstack0 = 0

IdleEig ==
  /\ eigval = 0 /\ eigval0 = 0 /\ quat = 0 /\ eigvec = 0 /\ D = 0
  /\ rk = 0 /\ ck = 0 /\ rotk = 0

IdleQ ==
  /\ Ain = 0 /\ bin = 0 /\ d = 0 /\ A = 0 /\ bvec = 0 /\ la = 0 /\ iter = 0 /\ res = 0
  /\ ret = 0 /\ variant = 0 /\ la_moved = 0 /\ taken = 0 /\ first = 0

IdleDense == IdleEig /\ IdleQ

IdleSparse ==
  /\ rownnz = 0 /\ rowadr = 0 /\ colind = 0 /\ rownnz0 = 0 /\ colind0 = 0
  /\ IdleUS /\ IdleLU /\ IdleArena

----------------------------------------------------------------------------
(* Bounds of the model *)

\* largest dimension n of the sparse Cholesky and LU inputs
MaxN == 3

\* fixed-point resolution: one unit is 1/Scale
Scale == 16

\* largest scratch-arena top at call entry
MaxStack0 == 1

----------------------------------------------------------------------------
(* mjtNum arithmetic *)

Abs(v) == IF v < 0 THEN -v ELSE v

\* a / b rounded to the nearest integer (b > 0), ties away from zero
RoundDiv(a, b) ==
  IF a >= 0 THEN (2 * a + b) \div (2 * b) ELSE -((2 * (-a) + b) \div (2 * b))

\* the integer k as an mjtNum
Num(k) == k * Scale

\* a * b
FMul(a, b) == RoundDiv(a * b, Scale)

\* a / b, b # 0
FDiv(a, b) ==
  IF b > 0 THEN RoundDiv(a * Scale, b) ELSE RoundDiv((-a) * Scale, -b)

RECURSIVE ISqrtBetween(_, _, _)
ISqrtBetween(v, lo, hi) ==
  IF lo >= hi THEN lo
  ELSE LET mid == (lo + hi + 1) \div 2
       IN IF mid * mid <= v THEN ISqrtBetween(v, mid, hi)
          ELSE ISqrtBetween(v, lo, mid - 1)

\* floor of the square root of the integer v >= 0
ISqrt(v) == ISqrtBetween(v, 0, IF v < 46340 THEN v ELSE 46340)

\* mju_sqrt(a), a >= 0
mju_sqrt(a) == ISqrt(a * Scale)

\* the 1e-10 / mjMINVAL thresholds: the smallest positive mjtNum of the model
mjMINVAL == 1

----------------------------------------------------------------------------
(* mjtNum arithmetic of the dense routines that iterate                     *)
(*                                                                          *)
(* mju_cholUpdate, the Newton loops of the QCQP solvers and the Jacobi loop *)
(* of mju_eig3 compare their iterates with 1e-15, 1e-10 and 1e-12, and      *)
(* what they do next depends on the rounding of each operation.  There an   *)
(* mjtNum is a double: a sign, a mantissa of MantBits bits and an exponent, *)
(* every operation rounded to the nearest double, ties to even.  The        *)
(* mantissa is a tuple of limbs in base Base, least significant first,      *)
(* without a leading zero limb: the integers of the model have 32 bits.     *)
(* Infinities, subnormal numbers and the sign of zero are left out: no      *)
(* operation of the runs below overflows, underflows or divides by zero.    *)

\* bits of a limb
LimbBits == 15

\* base of a limb
Base == 2^LimbBits

\* bits of the mantissa of a double (DBL_MANT_DIG)
MantBits == 53

\* limb k of the magnitude m
Limb(m, k) == IF k <= Len(m) THEN m[k] ELSE 0

RECURSIVE MagTrim(_)
MagTrim(m) ==
  IF Len(m) > 0 /\ m[Len(m)] = 0 THEN MagTrim(SubSeq(m, 1, Len(m) - 1)) ELSE m

RECURSIVE MagCmpFrom(_, _, _)
MagCmpFrom(a, b, k) ==
  IF k = 0 THEN 0
  ELSE IF a[k] < b[k] THEN -1
  ELSE IF a[k] > b[k] THEN 1
  ELSE MagCmpFrom(a, b, k - 1)

\* -1, 0, 1 as a < b, a = b, a > b
MagCmp(a, b) ==
  IF Len(a) < Len(b) THEN -1
  ELSE IF Len(a) > Len(b) THEN 1
  ELSE MagCmpFrom(a, b, Len(a))

RECURSIVE MagAddFrom(_, _, _, _)
MagAddFrom(a, b, k, carry) ==
  IF k > Len(a) /\ k > Len(b) THEN (IF carry = 0 THEN <<>> ELSE <<carry>>)
  ELSE LET s == Limb(a, k) + Limb(b, k) + carry
       IN <<s % Base>> \o MagAddFrom(a, b, k + 1, s \div Base)

MagAdd(a, b) == MagAddFrom(a, b, 1, 0)

RECURSIVE MagSubFrom(_, _, _, _)
MagSubFrom(a, b, k, borrow) ==
  IF k > Len(a) THEN <<>>
  ELSE LET s == a[k] - Limb(b, k) - borrow
       IN <<IF s < 0 THEN s + Base ELSE s>> \o MagSubFrom(a, b, k + 1, IF s < 0 THEN 1 ELSE 0)

\* a - b, a >= b
MagSub(a, b) == MagTrim(MagSubFrom(a, b, 1, 0))

RECURSIVE MagMulSmallFrom(_, _, _, _)
MagMulSmallFrom(a, s, k, carry) ==
  IF k > Len(a) THEN (IF carry = 0 THEN <<>> ELSE <<carry>>)
  ELSE LET t == a[k] * s + carry
       IN <<t % Base>> \o MagMulSmallFrom(a, s, k + 1, t \div Base)

\* a * s, 0 <= s < Base
MagMulSmall(a, s) == IF s = 0 THEN <<>> ELSE MagMulSmallFrom(a, s, 1, 0)

\* a * Base^k
MagShift(a, k) == IF a = <<>> THEN <<>> ELSE [p \in 1..k |-> 0] \o a

RECURSIVE MagMulFrom(_, _, _)
MagMulFrom(a, b, k) ==
  IF k > Len(b) THEN <<>>
  ELSE MagAdd(MagMulSmall(a, b[k]), MagShift(MagMulFrom(a, b, k + 1), 1))

MagMul(a, b) == MagMulFrom(a, b, 1)

\* Long division of the limbs k..1 of a by b, whose leading limb is at least
\* Base \div 2.  quot holds the digits found, cur is the remainder so far
\* followed by limb k, and guess is at least the digit cur \div b.
RECURSIVE MagDivFrom(_, _, _, _, _, _)

\* the next digit: its guess is the two leading limbs of cur by the leading
\* limb of b
MagDivDigit(a, b, k, cur, quot) ==
  LET est == (Limb(cur, Len(b) + 1) * Base + Limb(cur, Len(b))) \div b[Len(b)]
  IN MagDivFrom(a, b, k, cur, quot, IF est >= Base THEN Base - 1 ELSE est)

\* the digit guess is found and leaves the remainder rem
MagDivStep(a, b, k, quot, guess, rem) ==
  IF k = 1 THEN [q |-> MagTrim(<<guess>> \o quot), r |-> rem]
  ELSE MagDivDigit(a, b, k - 1, MagTrim(<<a[k - 1]>> \o rem), <<guess>> \o quot)

MagDivFrom(a, b, k, cur, quot, guess) ==
  IF MagCmp(MagMulSmall(b, guess), cur) > 0
  THEN MagDivFrom(a, b, k, cur, quot, guess - 1)
  ELSE MagDivStep(a, b, k, quot, guess, MagSub(cur, MagMulSmall(b, guess)))

\* quotient and remainder of af by bf, the leading limb of bf at least
\* Base \div 2
MagDivScaled(af, bf) ==
  IF af = <<>> THEN [q |-> <<>>, r |-> <<>>]
  ELSE MagDivFrom(af \o <<0>>, bf, Len(af) + 1, <<>>, <<>>, 0)

\* quotient q of a by b, and the remainder r of a * f by b * f, where f brings
\* the leading limb of b to Base \div 2 or more
MagDivMod(a, b) ==
  MagDivScaled(MagMulSmall(a, Base \div (b[Len(b)] + 1)),
               MagMulSmall(b, Base \div (b[Len(b)] + 1)))

\* a \div b
MagDiv(a, b) == MagDivMod(a, b).q

\* a \div 2
MagHalf(a) ==
  LET t == MagMulSmall(a, Base \div 2)
  IN IF Len(t) <= 1 THEN <<>> ELSE SubSeq(t, 2, Len(t))

\* Newton's iteration for the integer square root, from a guess g above it
RECURSIVE MagSqrtFrom(_, _)

\* the iterate nxt after g: the first that does not decrease is the root
MagSqrtNext(a, g, nxt) == IF MagCmp(nxt, g) >= 0 THEN g ELSE MagSqrtFrom(a, nxt)

MagSqrtFrom(a, g) == MagSqrtNext(a, g, MagHalf(MagAdd(g, MagDiv(a, g))))

\* floor of the square root of a
MagSqrt(a) ==
  IF a = <<>> THEN <<>>
  ELSE LET odd == Len(a) % 2 = 1
           top == IF odd THEN a[Len(a)] ELSE a[Len(a)] * Base + a[Len(a) - 1]
           half == (IF odd THEN Len(a) - 1 ELSE Len(a) - 2) \div 2
           above == ISqrt(top) + 1
       IN MagSqrtFrom(a, MagShift(MagTrim(<<above % Base, above \div Base>>), half))

\* number of bits of the integer v >= 0
RECURSIVE BitsOf(_)
BitsOf(v) == IF v = 0 THEN 0 ELSE 1 + BitsOf(v \div 2)

\* number of bits of the magnitude m
BitLen(m) == IF m = <<>> THEN 0 ELSE LimbBits * (Len(m) - 1) + BitsOf(m[Len(m)])

\* m * 2^k
MagShiftBits(m, k) == MagShift(MagMulSmall(m, 2^(k % LimbBits)), k \div LimbBits)

\* the integer k, 0 <= k < Base * Base, as a magnitude
MagOf(k) == MagTrim(<<k % Base, k \div Base>>)

\* the double (-1)^neg * mag * 2^exp; mag has MantBits bits or is zero
Dbl(neg, mag, exp) ==
  [nan |-> FALSE, neg |-> neg /\ mag # <<>>, mag |-> mag,
   exp |-> IF mag = <<>> THEN 0 ELSE exp]

\* the mjtNum that is not a number: arithmetic on it yields NaN and every
\* comparison with it is false
NaN == [nan |-> TRUE, neg |-> FALSE, mag |-> <<>>, exp |-> 0]

DZero == Dbl(FALSE, <<>>, 0)

\* the magnitude R of MantBits bits, or of one bit more after a carry
DRoundCarry(neg, R, e) ==
  IF BitLen(R) > MantBits THEN Dbl(neg, MagShiftBits(<<1>>, MantBits - 1), e + 1)
  ELSE Dbl(neg, R, e)

\* X holds the mantissa from limb q + 2 on and the dropped bits in the limbs
\* 1..q+1: up when they exceed half a unit of the mantissa, or are half a
\* unit and the mantissa is odd
DRoundCut(neg, X, q, e, sticky) ==
  DRoundCarry(neg,
              IF \/ X[q + 1] > Base \div 2
                 \/ /\ X[q + 1] = Base \div 2
                    /\ (sticky \/ (\E k \in 1..q : X[k] # 0) \/ X[q + 2] % 2 = 1)
              THEN MagAdd(SubSeq(X, q + 2, Len(X)), <<1>>)
              ELSE SubSeq(X, q + 2, Len(X)),
              e)

\* m has s bits more than a mantissa
DRoundTo(neg, m, e, sticky, s) ==
  IF s <= 0 THEN Dbl(neg, MagShiftBits(m, -s), e + s)
  ELSE DRoundCut(neg, MagMulSmall(m, 2^(LimbBits - 1 - ((s - 1) % LimbBits))),
                 (s - 1) \div LimbBits, e + s, sticky)

\* The double nearest to (-1)^neg * (m + f) * 2^e, ties to even, where f = 0
\* unless sticky, and 0 < f < 1 when sticky; then m has more than MantBits
\* bits.
DRound(neg, m, e, sticky) == DRoundTo(neg, m, e, sticky, BitLen(m) - MantBits)

\* the integer k, -Base * Base < k < Base * Base
DInt(k) == DRound(k < 0, MagOf(Abs(k)), 0, FALSE)

DOne == DInt(1)

DNeg(a) == IF a.nan THEN NaN ELSE Dbl(~a.neg, a.mag, a.exp)

\* fabs(a)
DAbs(a) == IF a.nan THEN NaN ELSE Dbl(FALSE, a.mag, a.exp)

\* -1, 0, 1 as |a| < |b|, |a| = |b|, |a| > |b|
DCmpAbs(a, b) ==
  IF a.mag = <<>> THEN (IF b.mag = <<>> THEN 0 ELSE -1)
  ELSE IF b.mag = <<>> THEN 1
  ELSE IF a.exp < b.exp THEN -1
  ELSE IF a.exp > b.exp THEN 1
  ELSE MagCmp(a.mag, b.mag)

\* H * 2^e + L * 2^e with the signs hneg and lneg, H >= L
DAddAligned(hneg, H, lneg, L, e) ==
  DRound(hneg, IF hneg = lneg THEN MagAdd(H, L) ELSE MagSub(H, L), e, FALSE)

\* hi + lo, |hi| >= |lo| > 0: a term more than 64 binary places below the
\* other does not change it
DAddOrdered(hi, lo) ==
  IF hi.exp - lo.exp > 64 THEN hi
  ELSE DAddAligned(hi.neg, MagShiftBits(hi.mag, hi.exp - lo.exp), lo.neg, lo.mag, lo.exp)

\* a + b
DAdd(a, b) ==
  IF a.nan \/ b.nan THEN NaN
  ELSE IF a.mag = <<>> THEN b
  ELSE IF b.mag = <<>> THEN a
  ELSE DAddOrdered(IF DCmpAbs(a, b) >= 0 THEN a ELSE b,
                   IF DCmpAbs(a, b) >= 0 THEN b ELSE a)

\* a - b
DSub(a, b) == DAdd(a, DNeg(b))

\* a * b
DMul(a, b) ==
  IF a.nan \/ b.nan THEN NaN
  ELSE IF a.mag = <<>> \/ b.mag = <<>> THEN DZero
  ELSE DRound(a.neg # b.neg, MagMul(a.mag, b.mag), a.exp + b.exp, FALSE)

\* the quotient dm.q with the remainder dm.r, rounded
DQuot(neg, dm, e) == DRound(neg, dm.q, e, dm.r # <<>>)

\* a / b, b # 0
DDiv(a, b) ==
  IF a.nan \/ b.nan THEN NaN
  ELSE IF a.mag = <<>> THEN DZero
  ELSE DQuot(a.neg # b.neg, MagDivMod(MagShiftBits(a.mag, MantBits + 3), b.mag),
             a.exp - b.exp - (MantBits + 3))

\* the root Q of M, exact or not, rounded
DRootOf(M, Q, e) == DRound(FALSE, Q, e, MagMul(Q, Q) # M)

\* the root of M * 4^e
DRoot(M, e) == DRootOf(M, MagSqrt(M), e)

\* mju_sqrt(a): NaN when a < 0
DSqrt(a) ==
  IF a.nan \/ a.neg THEN NaN
  ELSE IF a.mag = <<>> THEN DZero
  ELSE LET k == MantBits + 3 + ((a.exp + MantBits + 3) % 2)
       IN DRoot(MagShiftBits(a.mag, k), (a.exp - k) \div 2)

\* a < b
DLess(a, b) ==
  IF a.nan \/ b.nan THEN FALSE
  ELSE IF a.neg # b.neg THEN a.neg
  ELSE IF a.neg THEN DCmpAbs(a, b) > 0
  ELSE DCmpAbs(a, b) < 0

\* the fixed-point mjtNum v of the sparse routines, v / Scale, as a double
DNum(v) == DDiv(DInt(v), DInt(Scale))

\* mjMINVAL = 1e-15 (mjmodel.h) as a double
mjMINVALD == DDiv(DOne, DMul(DMul(DInt(100000), DInt(100000)), DInt(100000)))

\* a vector of dim zeros
DZeros(dim) == [k \in 0..(dim - 1) |-> DZero]

\* mju_dot(a, b, cnt) = a[0]*b[0] + ... + a[cnt-1]*b[cnt-1], cnt < 4
RECURSIVE mju_dotD(_, _, _)
mju_dotD(a, b, cnt) ==
  IF cnt = 0 THEN DZero ELSE DAdd(mju_dotD(a, b, cnt - 1), DMul(a[cnt - 1], b[cnt - 1]))

----------------------------------------------------------------------------
(* Scratch arena (engine_macro.h, engine_io.c) and fatal errors *)

\* mj_stackAlloc(d, size): the new stack top
mj_stackAlloc(top, size) == top + size

----------------------------------------------------------------------------
(* Sparse rows *)

\* no column: the content of an unused colind slot
NoCol == 0 - 1

RECURSIVE SortedSeq(_)
\* the elements of a finite set of integers in ascending order
SortedSeq(S) ==
  IF S = {} THEN <<>>
  ELSE LET m == CHOOSE a \in S : \A b \in S : a <= b
       IN <<m>> \o SortedSeq(S \ {m})

\* the view buf + adr of a flat buffer: offset k is buf[adr + k]
View(buf, adr) == [k \in 0..(n - 1) |-> IF adr + k \in DOMAIN buf THEN buf[adr + k] ELSE 0]

\* buf with the first cnt entries at adr replaced by the sequence s
WriteAt(buf, adr, s, cnt) ==
  [a \in DOMAIN buf |-> IF a >= adr /\ a < adr + cnt THEN s[a - adr + 1] ELSE buf[a]]

RECURSIVE MergeSparse(_, _, _, _, _, _, _, _, _, _, _)
\* the merge loop of mju_combineSparse; out_val/out_ind are the entries written
MergeSparse(buf, buf_ind, src, src_ind, a, b, buf_nnz, src_nnz, bi, si, out) ==
  IF bi < buf_nnz /\ si < src_nnz THEN
    IF buf_ind[bi] = src_ind[si] THEN
      MergeSparse(buf, buf_ind, src, src_ind, a, b, buf_nnz, src_nnz, bi + 1, si + 1,
                  [val |-> Append(out.val, FMul(a, buf[bi]) + FMul(b, src[si])),
                   ind |-> Append(out.ind, buf_ind[bi])])
    ELSE IF buf_ind[bi] < src_ind[si] THEN
      MergeSparse(buf, buf_ind, src, src_ind, a, b, buf_nnz, src_nnz, bi + 1, si,
                  [val |-> Append(out.val, FMul(a, buf[bi])),
                   ind |-> Append(out.ind, buf_ind[bi])])
    ELSE
      MergeSparse(buf, buf_ind, src, src_ind, a, b, buf_nnz, src_nnz, bi, si + 1,
                  [val |-> Append(out.val, FMul(b, src[si])),
                   ind |-> Append(out.ind, src_ind[si])])
  ELSE IF bi < buf_nnz THEN
    MergeSparse(buf, buf_ind, src, src_ind, a, b, buf_nnz, src_nnz, bi + 1, si,
                [val |-> Append(out.val, FMul(a, buf[bi])),
                 ind |-> Append(out.ind, buf_ind[bi])])
  ELSE IF si < src_nnz THEN
    MergeSparse(buf, buf_ind, src, src_ind, a, b, buf_nnz, src_nnz, bi, si + 1,
                [val |-> Append(out.val, FMul(b, src[si])),
                 ind |-> Append(out.ind, src_ind[si])])
  ELSE out

\* mju_combineSparse: dst = a*dst + b*src over the union of the two patterns;
\* returns the entries written to dst/dst_ind and their number nnz
mju_combineSparse(dst, src, a, b, dst_nnz, src_nnz, dst_ind, src_ind) ==
  LET out == MergeSparse(dst, dst_ind, src, src_ind, a, b, dst_nnz, src_nnz, 0, 0,
                         [val |-> <<>>, ind |-> <<>>])
  IN [nnz |-> Len(out.ind), val |-> out.val, ind |-> out.ind]

\* the columns stored in row c of a pattern (cnt, ind)
RowCols(cnt, ind, c) == {ind[rowadr[c] + k] : k \in 0..(cnt[c] - 1)}

----------------------------------------------------------------------------
(* Inputs of the sparse Cholesky routines: uncompressed layout, n slots per row *)

\* value stored at (row, col) on entry
EntryVal(row, col) == IF row = col THEN Num(4) ELSE Num(1)

\* the flat colind of a pattern rows : row -> set of columns
FlatColind(dim, rows) ==
  [a \in 0..(dim * dim - 1) |->
     LET row == a \div dim
         k == a % dim
         s == SortedSeq(rows[row])
     IN IF k < Len(s) THEN s[k + 1] ELSE NoCol]

\* the flat value buffer of a pattern
FlatMat(dim, rows) ==
  [a \in 0..(dim * dim - 1) |->
     LET row == a \div dim
         k == a % dim
         s == SortedSeq(rows[row])
     IN IF k < Len(s) THEN EntryVal(row, s[k + 1]) ELSE 0]

----------------------------------------------------------------------------
(* mju_cholFactorSparse *)

FSInit ==
  /\ pc = "start"
  /\ err = ""
  /\ pstack0 \in 0..MaxStack0
  /\ pstack = pstack0
  /\ mark = 0
  /\ n \in 1..MaxN
  /\ \E rows \in [0..(n - 1) -> SUBSET (0..(n - 1))] :
       /\ colind = FlatColind(n, rows)
       /\ mat = FlatMat(n, rows)
       /\ rownnz = [row \in 0..(n - 1) |-> Cardinality(rows[row])]
  /\ rowadr = [row \in 0..(n - 1) |-> row * n]
  /\ mat0 = mat
  /\ rownnz0 = rownnz
  /\ colind0 = colind
  /\ mindiag = Num(4) - 1
  /\ rank = 0
  /\ r = 0
  /\ i = 0
  /\ j = 0
  /\ IdleUS
  /\ IdleLU
  /\ IdleDense

\* lines 146-150: rank = n, mjMARKSTACK, two mj_stackAlloc(d, n)
FSEnter ==
  /\ pc = "start"
  /\ rank' = n
  /\ mark' = pstack
  /\ pstack' = mj_stackAlloc(mj_stackAlloc(pstack, n), n)
  /\ r' = 0
  /\ pc' = "shrink"
  /\ UNCHANGED <<j, grpUS, grpLU>>
  /\ UNCHANGED <<err, pstack0, n, mat, rownnz, rowadr, colind, mat0, rownnz0, colind0,
                 mindiag, i>>
  /\ UNCHANGED grpDense

RECURSIVE ShrinkRow(_, _)
\* lines 155-157: drop trailing entries right of the diagonal
ShrinkRow(cnt, row) ==
  IF cnt > 0 /\ colind[rowadr[row] + cnt - 1] > row THEN ShrinkRow(cnt - 1, row) ELSE cnt

\* mutant: only an empty row is rejected
MissingDiagOnlyEmpty(cnt, row) == cnt = 0

\* line 160: the row does not end at its diagonal
MissingDiag(cnt, row) == cnt = 0 \/ colind[rowadr[row] + cnt - 1] # row

\* lines 153-163: one iteration of the shrink loop
FSShrink ==
  /\ pc = "shrink"
  /\ LET cnt == ShrinkRow(rownnz[r], r)
     IN /\ rownnz' = [rownnz EXCEPT ![r] = cnt]
        /\ IF MissingDiag(cnt, r)
           THEN /\ pc' = "error"
                /\ err' = "Matrix must have non-zero diagonal in mju_cholFactorSparse"
                /\ r' = r
           ELSE /\ err' = err
                /\ IF r + 1 < n
                   THEN /\ pc' = "shrink" /\ r' = r + 1
                   ELSE /\ pc' = "diag" /\ r' = n - 1
  /\ UNCHANGED <<j, grpUS, grpLU>>
  /\ UNCHANGED <<pstack, mark, pstack0, n, mat, rowadr, colind, mat0, rownnz0, colind0,
                 mindiag, rank, i>>
  /\ UNCHANGED grpDense

\* lines 168-182: square root of the diagonal of row r, scale the row
FSDiag ==
  /\ pc = "diag"
  /\ LET nnz == rownnz[r]
         adr == rowadr[r]
         clamp == mat[adr + nnz - 1] < mindiag
         tmp == IF clamp THEN mindiag ELSE mat[adr + nnz - 1]
         dg == mju_sqrt(tmp)
         inv == FDiv(Num(1), dg)
     IN /\ rank' = IF clamp THEN rank - 1 ELSE rank
        /\ mat' = [a \in DOMAIN mat |->
                     IF a = adr + nnz - 1 THEN dg
                     ELSE IF a >= adr /\ a < adr + nnz - 1 THEN FMul(mat[a], inv)
                     ELSE mat[a]]
  /\ i' = 0
  /\ pc' = "combine"
  /\ UNCHANGED <<j, grpUS, grpLU>>
  /\ UNCHANGED <<err, pstack, mark, pstack0, n, rownnz, rowadr, colind, mat0, rownnz0,
                 colind0, mindiag, r>>
  /\ UNCHANGED grpDense

\* mutant: the whole row r, diagonal included, is combined into row c
FSSrcNnzWholeRow(nnz, k) == nnz

\* the number of entries of row r handed to mju_combineSparse as src (line 191)
FSSrcNnz(nnz, k) == k + 1

\* lines 185-196: row c = row c - mat(r,c) * row r(0:c), c the i-th column of row r
FSCombine ==
  /\ pc = "combine"
  /\ i < rownnz[r] - 1
  /\ LET adr == rowadr[r]
         c == colind[adr + i]
         comb == mju_combineSparse(View(mat, rowadr[c]), View(mat, adr), Num(1), -mat[adr + i],
                                  rownnz[c], FSSrcNnz(rownnz[r], i),
                                  View(colind, rowadr[c]), View(colind, adr))
     IN /\ mat' = WriteAt(mat, rowadr[c], comb.val, comb.nnz)
        /\ colind' = WriteAt(colind, rowadr[c], comb.ind, comb.nnz)
        /\ rownnz' = [rownnz EXCEPT ![c] = comb.nnz]
  /\ i' = i + 1
  /\ UNCHANGED <<j, grpUS, grpLU>>
  /\ UNCHANGED <<pc, err, pstack, mark, pstack0, n, rowadr, mat0, rownnz0, colind0,
                 mindiag, rank, r>>
  /\ UNCHANGED grpDense

\* line 166: next row of the back pass, or leave the loop
FSNextRow ==
  /\ pc = "combine"
  /\ i >= rownnz[r] - 1
  /\ r' = r - 1
  /\ pc' = IF r - 1 >= 0 THEN "diag" ELSE "free"
  /\ UNCHANGED <<j, grpUS, grpLU>>
  /\ UNCHANGED <<err, pstack, mark, pstack0, n, mat, rownnz, rowadr, colind, mat0,
                 rownnz0, colind0, mindiag, rank, i>>
  /\ UNCHANGED grpDense

\* lines 199-200: mjFREESTACK, return rank
FSReturn ==
  /\ pc = "free"
  /\ pstack' = mark
  /\ pc' = "done"
  /\ UNCHANGED <<j, grpUS, grpLU>>
  /\ UNCHANGED <<err, mark, pstack0, n, mat, rownnz, rowadr, colind, mat0, rownnz0,
                 colind0, mindiag, rank, r, i>>
  /\ UNCHANGED grpDense

FSNext == FSEnter \/ FSShrink \/ FSDiag \/ FSCombine \/ FSNextRow \/ FSReturn

SpecFS == FSInit /\ [][FSNext]_vars

----------------------------------------------------------------------------
(* mju_cholUpdateSparse *)

\* the flat pattern of a factor: row k stores lower[k] and its diagonal k
FactorRows(dim, lower) == [k \in 0..(dim - 1) |-> lower[k] \cup {k}]

\* x and x_ind of a sparse vector with index set X: ascending, capacity dim
XInd(dim, X) ==
  [k \in 0..(dim - 1) |-> IF k < Cardinality(X) THEN SortedSeq(X)[k + 1] ELSE NoCol]

XVal(dim, X) == [k \in 0..(dim - 1) |-> IF k < Cardinality(X) THEN Num(1) ELSE 0]

USInit ==
  /\ pc = "start"
  /\ err = ""
  /\ pstack0 \in 0..MaxStack0
  /\ pstack = pstack0
  /\ mark = 0
  /\ n \in 1..MaxN
  /\ \E lower \in [0..(n - 1) -> SUBSET (0..(n - 1))] :
       /\ \A k \in 0..(n - 1) : \A c \in lower[k] : c < k
       /\ colind = FlatColind(n, FactorRows(n, lower))
       /\ mat = FlatMat(n, FactorRows(n, lower))
       /\ rownnz = [row \in 0..(n - 1) |-> Cardinality(lower[row]) + 1]
  /\ rowadr = [row \in 0..(n - 1) |-> row * n]
  /\ \E X \in SUBSET (0..(n - 1)) :
       /\ x_ind = XInd(n, X)
       /\ x = XVal(n, X)
       /\ x_nnz = Cardinality(X)
  /\ flg_plus \in {0, 1}
  /\ mat0 = mat
  /\ rownnz0 = rownnz
  /\ colind0 = colind
  /\ mindiag = 0
  /\ rank = 0
  /\ r = 0
  /\ i = 0
  /\ j = 0
  /\ new_nnz = 0
  /\ IdleLU
  /\ IdleDense

\* lines 254-259: mjMARKSTACK, two mj_stackAlloc(d, n), rank = n, i = x_nnz - 1
USEnter ==
  /\ pc = "start"
  /\ mark' = pstack
  /\ pstack' = mj_stackAlloc(mj_stackAlloc(pstack, n), n)
  /\ rank' = n
  /\ i' = x_nnz - 1
  /\ pc' = "loop"
  /\ UNCHANGED <<err, pstack0, n, mat, rownnz, rowadr, colind, mat0, rownnz0, colind0,
                 mindiag, r, j, grpUS, grpLU>>
  /\ UNCHANGED grpDense

\* mutant: the size check is missing
USSizeChangedNever(cnt, nnz) == FALSE

\* line 283: the row combine changed the number of entries before the diagonal
USSizeChanged(cnt, nnz) == cnt # nnz - 1

\* lines 262-293: one iteration of the back pass over the rows x(r) # 0
USStep ==
  /\ pc = "loop"
  /\ i >= 0
  /\ LET nnz == rownnz[x_ind[i]]
         adr == rowadr[x_ind[i]]
         dg == mat[adr + nnz - 1]
         sq == IF flg_plus = 1 THEN FMul(dg, dg) + FMul(x[i], x[i])
               ELSE FMul(dg, dg) - FMul(x[i], x[i])
         clamp == sq < mjMINVAL
         tmp == IF clamp THEN mjMINVAL ELSE sq
         rr == mju_sqrt(tmp)
         c == FDiv(rr, dg)
         s == FDiv(x[i], dg)
         mat1 == [mat EXCEPT ![adr + nnz - 1] = rr]
         row == mju_combineSparse(View(mat1, adr), x, FDiv(Num(1), c),
                                  IF flg_plus = 1 THEN FDiv(s, c) ELSE -FDiv(s, c),
                                  nnz - 1, i, View(colind, adr), x_ind)
         mat2 == WriteAt(mat1, adr, row.val, row.nnz)
         colind2 == WriteAt(colind, adr, row.ind, row.nnz)
         xnew == mju_combineSparse(x, View(mat2, adr), c, -s, i, nnz - 1,
                                   x_ind, View(colind2, adr))
     IN /\ rank' = IF clamp THEN rank - 1 ELSE rank
        /\ mat' = mat2
        /\ colind' = colind2
        /\ new_nnz' = row.nnz
        /\ IF USSizeChanged(row.nnz, nnz)
           THEN /\ pc' = "error"
                /\ err' = "Varying sparsity pattern in mju_cholUpdateSparse"
                /\ UNCHANGED <<x, x_ind, i>>
           ELSE /\ x' = WriteAt(x, 0, xnew.val, xnew.nnz)
                /\ x_ind' = WriteAt(x_ind, 0, xnew.ind, xnew.nnz)
                /\ i' = i - 1 + (xnew.nnz - i)
                /\ UNCHANGED <<pc, err>>
  /\ UNCHANGED <<pstack, mark, pstack0, n, rownnz, rowadr, mat0, rownnz0, colind0,
                 mindiag, r, j, x_nnz, flg_plus, grpLU>>
  /\ UNCHANGED grpDense

\* lines 296-297: mjFREESTACK, return rank
USReturn ==
  /\ pc = "loop"
  /\ i < 0
  /\ pstack' = mark
  /\ pc' = "done"
  /\ UNCHANGED <<err, mark, pstack0, n, mat, rownnz, rowadr, colind, mat0, rownnz0,
                 colind0, mindiag, rank, r, i, j, grpUS, grpLU>>
  /\ UNCHANGED grpDense

USNext == USEnter \/ USStep \/ USReturn

SpecUS == USInit /\ [][USNext]_vars

----------------------------------------------------------------------------
(* mju_factorLUSparse: compressed layout, row k starts where row k-1 ends *)

RECURSIVE SumTo(_, _)
\* cnt[0] + ... + cnt[k-1]
SumTo(cnt, k) == IF k = 0 THEN 0 ELSE SumTo(cnt, k - 1) + cnt[k - 1]

\* the row and the offset in the row of address a of a compressed pattern
RowOf(cnt, a) == CHOOSE k \in DOMAIN cnt : SumTo(cnt, k) <= a /\ a < SumTo(cnt, k) + cnt[k]

\* value stored at (row, col) on entry; the diagonal of row zrow is zero
LUEntryVal(row, col, zrow) ==
  IF row = col THEN (IF row = zrow THEN 0 ELSE Num(2)) ELSE Num(1)

LUInit ==
  /\ pc = "start"
  /\ err = ""
  /\ n \in 1..MaxN
  /\ \E rows \in [0..(n - 1) -> SUBSET (0..(n - 1))], zrow \in {NoCol, n - 1} :
       LET cnt == [k \in 0..(n - 1) |-> Cardinality(rows[k])]
           size == SumTo(cnt, n)
       IN /\ rownnz = cnt
          /\ rowadr = [k \in 0..(n - 1) |-> SumTo(cnt, k)]
          /\ colind = [a \in 0..(size - 1) |->
                         SortedSeq(rows[RowOf(cnt, a)])[a - SumTo(cnt, RowOf(cnt, a)) + 1]]
          /\ LU = [a \in 0..(size - 1) |->
                     LUEntryVal(RowOf(cnt, a),
                                SortedSeq(rows[RowOf(cnt, a)])[a - SumTo(cnt, RowOf(cnt, a)) + 1],
                                zrow)]
  /\ LU0 = LU
  /\ rownnz0 = rownnz
  /\ colind0 = colind
  /\ remaining = 0
  /\ vec = 0
  /\ i = 0
  /\ j = 0
  /\ mat = 0 /\ mat0 = 0 /\ mindiag = 0 /\ rank = 0 /\ r = 0
  /\ IdleUS
  /\ IdleArena
  /\ IdleDense

\* variables mju_factorLUSparse never writes
luFrame == <<n, rownnz, rowadr, colind, LU0, rownnz0, colind0, mat, mat0, mindiag, rank, r,
             vec, grpUS, grpArena, grpDense>>

\* lines 308-314: remaining = rownnz, i = n-1
LUEnter ==
  /\ pc = "start"
  /\ remaining' = rownnz
  /\ i' = n - 1
  /\ pc' = "row"
  /\ UNCHANGED <<err, LU, j, luFrame>>

\* lines 316-327: the last remaining element of row i must be its diagonal;
\* reading colind outside the array is undefined behaviour ("ub")
LURow ==
  /\ pc = "row"
  /\ LET ii == rowadr[i] + remaining[i] - 1
     IN /\ remaining' = [remaining EXCEPT ![i] = remaining[i] - 1]
        /\ IF ii \notin DOMAIN colind
           THEN pc' = "ub" /\ err' = err
           ELSE IF colind[ii] # i
           THEN pc' = "error" /\ err' = "missing diagonal element in mju_factorLUSparse"
           ELSE IF Abs(LU[ii]) < mjMINVAL
           THEN pc' = "error" /\ err' = "diagonal element too small in mju_factorLUSparse"
           ELSE pc' = "elim" /\ err' = err
  /\ j' = i - 1
  /\ UNCHANGED <<LU, i, luFrame>>

RECURSIVE LUMerge(_, _, _, _, _)
\* lines 345-362: the walk over rows i and j; lu is the value buffer so far.
\* st is "ok" at the end of row j, "fillin" at the fill-in error, "ub" on a read
\* outside the arrays
LUMerge(lu, LUji, icnt, jcnt, jend) ==
  IF jcnt >= jend THEN [st |-> "ok", lu |-> lu, icnt |-> icnt, jcnt |-> jcnt]
  ELSE IF icnt \notin DOMAIN colind \/ jcnt \notin DOMAIN colind
  THEN [st |-> "ub", lu |-> lu, icnt |-> icnt, jcnt |-> jcnt]
  ELSE IF colind[icnt] = colind[jcnt]
  THEN LUMerge([lu EXCEPT ![jcnt] = lu[jcnt] - FMul(lu[icnt], LUji)],
               LUji, icnt + 1, jcnt + 1, jend)
  ELSE IF colind[icnt] > colind[jcnt]
  THEN LUMerge(lu, LUji, icnt, jcnt + 1, jend)
  ELSE [st |-> "fillin", lu |-> lu, icnt |-> icnt, jcnt |-> jcnt]

\* mutant: a column stored in row i alone is skipped like one stored in row j alone
RECURSIVE LUMergeSkipBoth(_, _, _, _, _)
LUMergeSkipBoth(lu, LUji, icnt, jcnt, jend) ==
  IF jcnt >= jend THEN [st |-> "ok", lu |-> lu, icnt |-> icnt, jcnt |-> jcnt]
  ELSE IF icnt \notin DOMAIN colind \/ jcnt \notin DOMAIN colind
  THEN [st |-> "ub", lu |-> lu, icnt |-> icnt, jcnt |-> jcnt]
  ELSE IF colind[icnt] = colind[jcnt]
  THEN LUMergeSkipBoth([lu EXCEPT ![jcnt] = lu[jcnt] - FMul(lu[icnt], LUji)],
                       LUji, icnt + 1, jcnt + 1, jend)
  ELSE IF colind[icnt] > colind[jcnt]
  THEN LUMergeSkipBoth(lu, LUji, icnt, jcnt + 1, jend)
  ELSE LUMergeSkipBoth(lu, LUji, icnt + 1, jcnt, jend)

\* lines 343-362 for the rows i and j of the current state
LUWalk(lu, LUji, icnt, jcnt, jend) == LUMerge(lu, LUji, icnt, jcnt, jend)

\* lines 330-368: one iteration of the loop over the rows j above i
LUElim ==
  /\ pc = "elim"
  /\ j >= 0
  /\ LET ii == rowadr[i] + remaining[i]
         ji == rowadr[j] + remaining[j] - 1
     IN IF ji \notin DOMAIN colind
        THEN pc' = "ub" /\ UNCHANGED <<err, LU, remaining, j>>
        ELSE IF colind[ji] = i
        THEN LET rem == [remaining EXCEPT ![j] = remaining[j] - 1]
                 LUji == FDiv(LU[ji], LU[ii])
                 w == LUWalk([LU EXCEPT ![ji] = LUji], LUji, rowadr[i], rowadr[j],
                             rowadr[j] + rem[j])
             IN /\ remaining' = rem
                /\ LU' = w.lu
                /\ IF w.st = "ub" THEN pc' = "ub" /\ UNCHANGED <<err, j>>
                   ELSE IF w.st = "fillin"
                   THEN /\ pc' = "error"
                        /\ err' = "mju_factorLUSparse requires fill-in"
                        /\ j' = j
                   ELSE IF w.icnt # rowadr[i] + rem[i] \/ w.jcnt # rowadr[j] + rem[j]
                   THEN /\ pc' = "error"
                        /\ err' = "row processing incomplete in mju_factorLUSparse"
                        /\ j' = j
                   ELSE pc' = pc /\ err' = err /\ j' = j - 1
        ELSE /\ j' = j - 1
             /\ UNCHANGED <<pc, err, LU, remaining>>
  /\ UNCHANGED <<i, luFrame>>

\* line 314: next row i, or leave the loop
LUNextRow ==
  /\ pc = "elim"
  /\ j < 0
  /\ i' = i - 1
  /\ pc' = IF i - 1 >= 0 THEN "row" ELSE "final"
  /\ UNCHANGED <<err, LU, remaining, j, luFrame>>

\* lines 373-377: remaining must point to the diagonal of every row
LUFinal ==
  /\ pc = "final"
  /\ IF \E k \in 0..(n - 1) : remaining[k] >= 0 /\ rowadr[k] + remaining[k] \notin DOMAIN colind
     THEN pc' = "ub" /\ err' = err
     ELSE IF \E k \in 0..(n - 1) : remaining[k] < 0 \/ colind[rowadr[k] + remaining[k]] # k
     THEN pc' = "error" /\ err' = "unexpected sparse matrix structure in mju_factorLUSparse"
     ELSE pc' = "done" /\ err' = err
  /\ UNCHANGED <<LU, remaining, i, j, luFrame>>

LUNext == LUEnter \/ LURow \/ LUElim \/ LUNextRow \/ LUFinal

SpecLU == LUInit /\ [][LUNext]_vars

----------------------------------------------------------------------------
(* mju_cholFactor and mju_cholSolve: dense Cholesky *)

\* largest dimension of the dense Cholesky inputs
MaxDense == 3

\* mju_dot(a, b, cnt): the products are summed exactly and rounded once
RECURSIVE SumProd(_, _, _)
SumProd(a, b, cnt) ==
  IF cnt = 0 THEN 0 ELSE SumProd(a, b, cnt - 1) + a[cnt - 1] * b[cnt - 1]

mju_dot(a, b, cnt) == RoundDiv(SumProd(a, b, cnt), Scale)

\* the pointer m + row*dim: row `row` of the dense dim x dim matrix m
Row(m, dim, row) == [k \in 0..(dim - 1) |-> m[row * dim + k]]

\* the new diagonal of column jj: mat[jj,jj] - dot(L[jj,0:jj], L[jj,0:jj])
CholPivot(m, dim, jj) ==
  m[jj * (dim + 1)] - (IF jj > 0 THEN mju_dot(Row(m, dim, jj), Row(m, dim, jj), jj) ELSE 0)

\* mutant: a pivot equal to the threshold is corrected as well
CholBelowOrEqual(tmp, md) == tmp <= md

\* the test "tmp<mindiag" that corrects a diagonal value
CholBelow(tmp, md) == tmp < md

\* one pass of the loop over j: the factor after column jj, and whether the
\* pivot was corrected.  The product with 1/mat[jj,jj] is taken as a quotient.
CholColumn(m, dim, jj, md) ==
  LET tmp0 == CholPivot(m, dim, jj)
      low == CholBelow(tmp0, md)
      dg == mju_sqrt(IF low THEN md ELSE tmp0)
      Lj == Row(m, dim, jj)
  IN [low |-> low,
      mat |-> [a \in DOMAIN m |->
                 IF a = jj * (dim + 1) THEN dg
                 ELSE IF a % dim = jj /\ a \div dim > jj
                      THEN FDiv(m[a] - mju_dot(Row(m, dim, a \div dim), Lj, jj), dg)
                      ELSE m[a]]]

\* values of the entries of the dense inputs
DiagVals == {Num(0), Num(1), Num(4)}

OffVals == {Num(-1), Num(0), Num(2)}

\* a symmetric dim x dim matrix from its diagonal dg and its lower triangle lo
SymMat(dim, dg, lo) ==
  [a \in 0..(dim * dim - 1) |->
     LET row == a \div dim
         col == a % dim
     IN IF row = col THEN dg[row]
        ELSE IF row > col THEN lo[row * dim + col] ELSE lo[col * dim + row]]

\* the addresses of the strict lower triangle
LowerAdr(dim) == {a \in 0..(dim * dim - 1) : a \div dim > a % dim}

\* the thresholds tried: one unit and 1.0.  One unit is tried up to dimension
\* 3 only: a quotient by its square root multiplies a column by 4, and from
\* dimension 4 on the products leave the range of the model's integers.
MinDiags(dim) == {Num(1)} \cup (IF dim <= 3 THEN {1} ELSE {})

CholInit ==
  /\ pc = "start"
  /\ err = ""
  /\ n \in 1..MaxDense
  /\ \E dg \in [0..(n - 1) -> DiagVals], lo \in [LowerAdr(n) -> OffVals] :
       mat = SymMat(n, dg, lo)
  /\ mat0 = mat
  /\ mindiag \in MinDiags(n)
  /\ rank = 0 /\ r = 0 /\ i = 0 /\ j = 0
  /\ IdleSparse
  /\ IdleDense

cholFrame == <<err, n, mat0, mindiag, r, i, grpSparse, grpDense>>

\* lines 33-37: rank = n, enter the loop
CholEnter ==
  /\ pc = "start"
  /\ rank' = n
  /\ j' = 0
  /\ pc' = "col"
  /\ UNCHANGED <<mat, cholFrame>>

\* lines 37-58: one column
CholStep ==
  /\ pc = "col"
  /\ j < n
  /\ LET c == CholColumn(mat, n, j, mindiag)
     IN /\ mat' = c.mat
        /\ rank' = IF c.low THEN rank - 1 ELSE rank
  /\ j' = j + 1
  /\ UNCHANGED <<pc, cholFrame>>

\* line 60
CholReturn ==
  /\ pc = "col"
  /\ j >= n
  /\ pc' = "done"
  /\ UNCHANGED <<mat, rank, j, cholFrame>>

CholNext == CholEnter \/ CholStep \/ CholReturn

SpecChol == CholInit /\ [][CholNext]_vars

----------------------------------------------------------------------------
(* mju_eig3: the quaternion and matrix routines it calls                    *)
(* (engine_util_blas.c, engine_util_spatial.c)                              *)

\* a >= b
DGeq(a, b) == ~a.nan /\ ~b.nan /\ ~DLess(a, b)

\* the literal 0.5
DHalf == DDiv(DOne, DInt(2))

\* the unit quaternion
UnitQuat == [k \in 0..3 |-> IF k = 0 THEN DOne ELSE DZero]

\* the 0-based array with the entries of the tuple t
Arr(t) == [a \in 0..(Len(t) - 1) |-> t[a + 1]]

\* the matrix of the products q00 = quat[0]*quat[0], ..., q33 = quat[3]*quat[3]
Quat2MatOf(q00, q01, q02, q03, q11, q12, q13, q22, q23, q33) ==
  Arr(<<DSub(DSub(DAdd(q00, q11), q22), q33),
        DMul(DInt(2), DSub(q12, q03)),
        DMul(DInt(2), DAdd(q13, q02)),
        DMul(DInt(2), DAdd(q12, q03)),
        DSub(DAdd(DSub(q00, q11), q22), q33),
        DMul(DInt(2), DSub(q23, q01)),
        DMul(DInt(2), DSub(q13, q02)),
        DMul(DInt(2), DAdd(q23, q01)),
        DAdd(DSub(DSub(q00, q11), q22), q33)>>)

\* mju_quat2Mat(res, quat): the rotation matrix of quat, row-major
mju_quat2Mat(q) ==
  IF q = UnitQuat
  THEN [a \in 0..8 |-> IF a \div 3 = a % 3 THEN DOne ELSE DZero]
  ELSE Quat2MatOf(DMul(q[0], q[0]), DMul(q[0], q[1]), DMul(q[0], q[2]), DMul(q[0], q[3]),
                  DMul(q[1], q[1]), DMul(q[1], q[2]), DMul(q[1], q[3]),
                  DMul(q[2], q[2]), DMul(q[2], q[3]), DMul(q[3], q[3]))

\* mju_addToScl on one entry, skipped when the scale is 0: acc += v * scl
AddToScl(acc, v, scl) == IF scl = DZero THEN acc ELSE DAdd(acc, DMul(v, scl))

\* mju_mulMatTMat(res, m1, m2, 3, 3, 3): res = m1' * m2
mju_mulMatTMat(m1, m2) ==
  [a \in 0..8 |->
     LET row == a \div 3
         col == a % 3
     IN AddToScl(AddToScl(AddToScl(DZero, m2[col], m1[row]),
                          m2[3 + col], m1[3 + row]),
                 m2[6 + col], m1[6 + row])]

\* mju_mulMatMat(res, m1, m2, 3, 3, 3): res = m1 * m2
mju_mulMatMat(m1, m2) ==
  [a \in 0..8 |->
     LET row == a \div 3
         col == a % 3
     IN AddToScl(AddToScl(AddToScl(DZero, m2[col], m1[3 * row]),
                          m2[3 + col], m1[3 * row + 1]),
                 m2[6 + col], m1[3 * row + 2])]

\* mju_mulQuat(res, qa, qb)
mju_mulQuat(qa, qb) ==
  Arr(<<DSub(DSub(DSub(DMul(qa[0], qb[0]), DMul(qa[1], qb[1])), DMul(qa[2], qb[2])),
             DMul(qa[3], qb[3])),
        DSub(DAdd(DAdd(DMul(qa[0], qb[1]), DMul(qa[1], qb[0])), DMul(qa[2], qb[3])),
             DMul(qa[3], qb[2])),
        DAdd(DAdd(DSub(DMul(qa[0], qb[2]), DMul(qa[1], qb[3])), DMul(qa[2], qb[0])),
             DMul(qa[3], qb[1])),
        DAdd(DSub(DAdd(DMul(qa[0], qb[3]), DMul(qa[1], qb[2])), DMul(qa[2], qb[1])),
             DMul(qa[3], qb[0]))>>)

\* vec of length norm, scaled to length 1
Normalize4By(v, norm) ==
  IF DLess(norm, mjMINVALD) THEN UnitQuat
  ELSE [k \in 0..3 |-> DMul(v[k], DDiv(DOne, norm))]

\* mju_normalize4(vec): vec scaled to length 1
mju_normalize4(v) ==
  Normalize4By(v, DSqrt(DAdd(DAdd(DAdd(DMul(v[0], v[0]), DMul(v[1], v[1])),
                                  DMul(v[2], v[2])),
                             DMul(v[3], v[3]))))

----------------------------------------------------------------------------
(* mju_eig3: the sort of the eigenvalues after the Jacobi loop *)

\* the values the Jacobi loop may leave in eigval lie in -MaxEig..MaxEig
MaxEig == 2

EigVals == {DInt(k) : k \in (-MaxEig)..MaxEig}

\* mutant: equal values are swapped as well
EigSwapOnTie(left, right) == ~DLess(right, left)

\* the test "eigval[j1] < eigval[j1+1]" that triggers a swap
EigSwap(left, right) == DLess(left, right)

\* the literal 0.707106781186548 of line 509
QuarterTurn ==
  DDiv(DAdd(DMul(DInt(707106781), DInt(1000000)), DInt(186548)),
       DMul(DMul(DInt(100000), DInt(100000)), DInt(100000)))

\* lines 509-514: quat is turned by a quarter turn about axis (j1+2)%3+1
RotateQuat(q, j1) ==
  mju_normalize4(mju_mulQuat(q, [k \in 0..3 |->
                                   IF k = 0 \/ k = ((j1 + 2) % 3) + 1
                                   THEN QuarterTurn ELSE DZero]))

\* the sort as it starts when the Jacobi loop found mat diagonal: quat is
\* the unit quaternion
EigSortInit ==
  /\ pc = "sort"
  /\ err = ""
  /\ eigval \in [0..2 -> EigVals]
  /\ eigval0 = eigval
  /\ quat = UnitQuat
  /\ eigvec = mju_quat2Mat(UnitQuat)
  /\ D = 0 /\ rk = 0 /\ ck = 0 /\ rotk = 0
  /\ j = 0
  /\ n = 0 /\ mat = 0 /\ mat0 = 0 /\ mindiag = 0 /\ rank = 0 /\ r = 0 /\ i = 0
  /\ IdleSparse
  /\ IdleQ

\* variables the sort never writes
eigFrame == <<err, n, mat, mat0, mindiag, rank, r, i, eigval0, D, rk, ck, rotk,
              grpSparse, grpQ>>

\* lines 499-516: one comparison of the pass
EigSortStep ==
  /\ pc = "sort"
  /\ j < 3
  /\ LET j1 == j % 2
     IN IF EigSwap(eigval[j1], eigval[j1 + 1])
        THEN /\ eigval' = [eigval EXCEPT ![j1] = eigval[j1 + 1], ![j1 + 1] = eigval[j1]]
             /\ quat' = RotateQuat(quat, j1)
        ELSE UNCHANGED <<eigval, quat>>
  /\ j' = j + 1
  /\ UNCHANGED <<pc, eigvec, eigFrame>>

\* lines 519-521: recompute eigvec, return iter
EigSortReturn ==
  /\ pc = "sort"
  /\ j >= 3
  /\ eigvec' = mju_quat2Mat(quat)
  /\ pc' = "done"
  /\ UNCHANGED <<eigval, quat, j, eigFrame>>

EigSortNext == EigSortStep \/ EigSortReturn

SpecEigSort == EigSortInit /\ [][EigSortNext]_vars

----------------------------------------------------------------------------
(* mju_eig3: the Jacobi loop *)

\* eigEPS = 1E-12 (line 427)
eigEPS == DDiv(DOne, DMul(DInt(1000000), DInt(1000000)))

\* the iteration cap of the Jacobi loop
JacobiCap == 500

\* mutant: one iteration more
JacobiMoreOrEqual(it) == it <= JacobiCap

\* the loop test "iter<500"
JacobiMore(it) == it < JacobiCap

\* the symmetric matrix with diagonal dg and off-diagonal entries d1 = [0,1],
\* d2 = [0,2], d5 = [1,2]
JacobiMat(dg, d1, d2, d5) ==
  Arr(<<dg[1], d1, d2,
        d1, dg[2], d5,
        d2, d5, dg[3]>>)

\* off-diagonal entries of the arguments
JacobiOffs == {DInt(-1), DZero, DInt(1), DInt(2)}

\* The arguments mat: every combination of the off-diagonal entries under
\* the diagonal (0, 1, 2); one off-diagonal pair under a descending and a
\* constant diagonal; an off-diagonal pair below and at eigEPS; and a matrix
\* that holds no numbers.
JacobiInputs ==
  {JacobiMat(<<DZero, DOne, DInt(2)>>, d1, d2, d5) :
     d1 \in JacobiOffs, d2 \in JacobiOffs, d5 \in JacobiOffs}
  \cup {JacobiMat(dg, d1, DZero, DZero) :
          dg \in {<<DInt(2), DOne, DZero>>, <<DOne, DOne, DOne>>},
          d1 \in {DZero, DOne}}
  \cup {JacobiMat(<<DZero, DOne, DInt(2)>>, d1, DZero, DZero) :
          d1 \in {DMul(eigEPS, DHalf), eigEPS}}
  \cup {[a \in 0..8 |-> NaN]}

\* mutant: D[1] is taken when it exceeds D[2] alone
EigPickFirstPair(DD) ==
  IF DLess(DAbs(DD[2]), DAbs(DD[1]))
  THEN [rk |-> 0, ck |-> 1, rotk |-> 2]
  ELSE IF DLess(DAbs(DD[5]), DAbs(DD[2]))
  THEN [rk |-> 0, ck |-> 2, rotk |-> 1]
  ELSE [rk |-> 1, ck |-> 2, rotk |-> 0]

\* lines 449-462: find max off-diagonal element, set indices
EigPick(DD) ==
  IF DLess(DAbs(DD[2]), DAbs(DD[1])) /\ DLess(DAbs(DD[5]), DAbs(DD[1]))
  THEN [rk |-> 0, ck |-> 1, rotk |-> 2]
  ELSE IF DLess(DAbs(DD[5]), DAbs(DD[2]))
  THEN [rk |-> 0, ck |-> 2, rotk |-> 1]
  ELSE [rk |-> 1, ck |-> 2, rotk |-> 0]

\* line 470: tau of the 2x2 symmetric Schur decomposition
SchurTau(DD, rr, cc) ==
  DDiv(DSub(DD[4 * cc], DD[4 * rr]), DMul(DInt(2), DD[3 * rr + cc]))

\* lines 471-475: t
SchurT(tau) ==
  IF DGeq(tau, DZero)
  THEN DDiv(DOne, DAdd(tau, DSqrt(DAdd(DOne, DMul(tau, tau)))))
  ELSE DDiv(DInt(-1), DAdd(DNeg(tau), DSqrt(DAdd(DOne, DMul(tau, tau)))))

\* line 476: c = 1.0/mju_sqrt(1 + t*t)
SchurCosOf(t) == DDiv(DOne, DSqrt(DAdd(DOne, DMul(t, t))))

\* lines 471-476: the cosine c of the rotation
SchurCos(tau) == SchurCosOf(SchurT(tau))

\* lines 485-488: tmp[rotk+1], negated for rotk = 1
SchurSine(tau, c, axis) ==
  IF DGeq(tau, DZero) = (axis = 1)
  THEN DSqrt(DSub(DHalf, DMul(DHalf, c)))
  ELSE DNeg(DSqrt(DSub(DHalf, DMul(DHalf, c))))

\* lines 484, 489-490: the quaternion with component comp on the axis,
\* normalized
SchurQuatOf(comp, axis) ==
  mju_normalize4([k \in 0..3 |->
                    IF k = 0 THEN DSqrt(DSub(DOne, DMul(comp, comp)))
                    ELSE IF k = axis + 1 THEN comp
                    ELSE DZero])

\* lines 484-490: the rotation as a quaternion
SchurQuat(tau, c, axis) == SchurQuatOf(SchurSine(tau, c, axis), axis)

Eig3Init ==
  /\ pc = "start"
  /\ err = ""
  /\ mat \in JacobiInputs
  /\ mat0 = mat
  /\ D = 0
  /\ iter = 0
  /\ eigval = 0
  /\ eigval0 = 0
  /\ eigvec = 0
  /\ quat = 0
  /\ rk = 0 /\ ck = 0 /\ rotk = 0
  /\ j = 0
  /\ n = 0 /\ mindiag = 0 /\ rank = 0 /\ r = 0 /\ i = 0
  /\ IdleSparse
  /\ Ain = 0 /\ bin = 0 /\ d = 0 /\ A = 0 /\ bvec = 0 /\ la = 0 /\ res = 0
  /\ ret = 0 /\ variant = 0 /\ la_moved = 0 /\ taken = 0 /\ first = 0

\* variables the Jacobi loop never writes
jacobiFrame == <<err, n, mat, mat0, mindiag, rank, r, i, grpSparse,
                 Ain, bin, d, A, bvec, la, res, ret, variant, la_moved, taken, first>>

\* lines 433-438: initialize with unit quaternion, enter the loop
JacobiEnter ==
  /\ pc = "start"
  /\ quat' = UnitQuat
  /\ iter' = 0
  /\ pc' = "top"
  /\ UNCHANGED <<D, eigval, eigval0, eigvec, rk, ck, rotk, j, jacobiFrame>>

\* lines 438-462: the loop test holds; eigvec is made from quat,
\* D = eigvec' * mat * eigvec, eigval is its diagonal, and the off-diagonal
\* entry is selected
JacobiPick ==
  /\ pc = "top"
  /\ JacobiMore(iter)
  /\ eigvec' = mju_quat2Mat(quat)
  /\ D' = mju_mulMatMat(mju_mulMatTMat(eigvec', mat), eigvec')
  /\ eigval' = [k \in 0..2 |-> D'[4 * k]]
  /\ rk' = EigPick(D').rk
  /\ ck' = EigPick(D').ck
  /\ rotk' = EigPick(D').rotk
  /\ pc' = "picked"
  /\ UNCHANGED <<iter, quat, eigval0, j, jacobiFrame>>

\* lines 465-467: terminate if max off-diagonal element too small
JacobiTolerance ==
  /\ pc = "picked"
  /\ IF DLess(DAbs(D[3 * rk + ck]), eigEPS)
     THEN pc' = "sort" /\ eigval0' = eigval /\ j' = 0
     ELSE pc' = "schur" /\ UNCHANGED <<eigval0, j>>
  /\ UNCHANGED <<D, iter, quat, eigval, eigvec, rk, ck, rotk, jacobiFrame>>

\* lines 479-495, given tau and the cosine c
JacobiRotateBy(tau, c) ==
  IF DLess(DSub(DOne, eigEPS), c)
  THEN pc' = "sort" /\ eigval0' = eigval /\ j' = 0 /\ UNCHANGED <<iter, quat>>
  ELSE /\ quat' = mju_normalize4(mju_mulQuat(quat, SchurQuat(tau, c, rotk)))
       /\ iter' = iter + 1
       /\ pc' = "top"
       /\ UNCHANGED <<eigval0, j>>

\* lines 470-496: terminate if cosine too close to 1; otherwise the rotation
\* is accumulated in quat
JacobiRotate ==
  /\ pc = "schur"
  /\ JacobiRotateBy(SchurTau(D, rk, ck), SchurCos(SchurTau(D, rk, ck)))
  /\ UNCHANGED <<D, eigval, eigvec, rk, ck, rotk, jacobiFrame>>

\* line 438: the loop test fails
JacobiExhausted ==
  /\ pc = "top"
  /\ ~JacobiMore(iter)
  /\ pc' = "sort"
  /\ eigval0' = eigval
  /\ j' = 0
  /\ UNCHANGED <<D, iter, quat, eigval, eigvec, rk, ck, rotk, jacobiFrame>>

JacobiNext ==
  JacobiEnter \/ JacobiPick \/ JacobiTolerance \/ JacobiRotate \/ JacobiExhausted

\* the whole routine: the Jacobi loop, then the sort
Eig3Next == JacobiNext \/ EigSortNext

SpecEig3 == Eig3Init /\ [][Eig3Next]_vars

----------------------------------------------------------------------------
(* mju_cholFactor and mju_cholSolve as mju_QCQP calls them: on doubles *)

\* lines 51, 55-57: dg is saved, the column below it is reduced and scaled by tmp
CholScaleD(m, dim, jj, low, dg, tmp) ==
  [low |-> low,
   mat |-> [a \in DOMAIN m |->
              IF a = jj * (dim + 1) THEN dg
              ELSE IF a % dim = jj /\ a \div dim > jj
                   THEN DMul(DSub(m[a], mju_dotD(Row(m, dim, a \div dim), Row(m, dim, jj), jj)),
                             tmp)
                   ELSE m[a]]]

\* line 54: tmp = 1/mat[j*(n+1)]
CholDiagD(m, dim, jj, low, dg) == CholScaleD(m, dim, jj, low, dg, DDiv(DOne, dg))

\* lines 45-51: tmp0 below mindiag is replaced by it; its root is the diagonal
CholPivotD(m, dim, jj, md, tmp0) ==
  CholDiagD(m, dim, jj, DLess(tmp0, md), DSqrt(IF DLess(tmp0, md) THEN md ELSE tmp0))

\* lines 37-58 of mju_cholFactor, one pass of the loop over j; lines 39-42: tmp0
CholColumnD(m, dim, jj, md) ==
  CholPivotD(m, dim, jj, md,
             IF jj > 0
             THEN DSub(m[jj * (dim + 1)], mju_dotD(Row(m, dim, jj), Row(m, dim, jj), jj))
             ELSE m[jj * (dim + 1)])

RECURSIVE CholFrom(_, _, _, _, _)

\* the passes after column jj, whose pass left c
CholAfter(c, dim, md, jj, rnk) ==
  CholFrom(c.mat, dim, md, jj + 1, IF c.low THEN rnk - 1 ELSE rnk)

CholFrom(m, dim, md, jj, rnk) ==
  IF jj >= dim THEN [mat |-> m, rank |-> rnk]
  ELSE CholAfter(CholColumnD(m, dim, jj, md), dim, md, jj, rnk)

\* lines 32-61: the factor and the rank returned
mju_cholFactor(m, dim, md) == CholFrom(m, dim, md, 0, dim)

\* lines 73-80: forward substitution from row k on
RECURSIVE FwdSub(_, _, _, _)
FwdSub(m, dim, v, k) ==
  IF k >= dim THEN v
  ELSE FwdSub(m, dim,
              [v EXCEPT ![k] = DDiv(IF k > 0 THEN DSub(v[k], mju_dotD(Row(m, dim, k), v, k))
                                    ELSE v[k],
                                    m[k * (dim + 1)])],
              k + 1)

\* lines 85-87: res[k] less mat[jj*n+k] * res[jj] for jj = k+1..upto
RECURSIVE ColSub(_, _, _, _, _)
ColSub(m, dim, v, k, upto) ==
  IF upto <= k THEN v[k]
  ELSE DSub(ColSub(m, dim, v, k, upto - 1), DMul(m[upto * dim + k], v[upto]))

\* lines 83-91: backward substitution from row k down
RECURSIVE BwdSub(_, _, _, _)
BwdSub(m, dim, v, k) ==
  IF k < 0 THEN v
  ELSE BwdSub(m, dim, [v EXCEPT ![k] = DDiv(ColSub(m, dim, v, k, dim - 1), m[k * (dim + 1)])],
              k - 1)

\* res = (L L')^-1 vec
mju_cholSolve(m, rhs, dim) == BwdSub(m, dim, FwdSub(m, dim, rhs, 0), dim - 1)

----------------------------------------------------------------------------
(* mju_cholUpdate: rank-one update of a dense Cholesky factor *)

\* lines 128-130: x is updated with the column k of the updated factor m1
CholUpdateX(low, m1, xx, dim, kk, c, s) ==
  [low |-> low,
   mat |-> m1,
   x |-> [q \in DOMAIN xx |->
            IF q > kk THEN DSub(DMul(c, xx[q]), DMul(s, m1[q * dim + kk])) ELSE xx[q]]]

\* lines 116-125: the diagonal entry becomes r, the column below it is updated
CholUpdateRot(m, xx, dim, kk, plus, low, rr, c, cinv, s) ==
  CholUpdateX(low,
              [a \in DOMAIN m |->
                 IF a = kk * (dim + 1) THEN rr
                 ELSE IF a % dim = kk /\ a \div dim > kk
                      THEN DMul(IF plus # 0
                                THEN DAdd(m[a], DMul(s, xx[a \div dim]))
                                ELSE DSub(m[a], DMul(s, xx[a \div dim])), cinv)
                      ELSE m[a]],
              xx, dim, kk, c, s)

\* lines 111-113: c = r/Lkk, cinv = 1/c, s = x[k]/Lkk
CholUpdateBy(m, xx, dim, kk, plus, low, rr) ==
  CholUpdateRot(m, xx, dim, kk, plus, low, rr,
                DDiv(rr, m[kk * (dim + 1)]),
                DDiv(DOne, DDiv(rr, m[kk * (dim + 1)])),
                DDiv(xx[kk], m[kk * (dim + 1)]))

\* lines 106-110: tmp0 below mjMINVAL is replaced by it; r is its root
CholUpdatePivot(m, xx, dim, kk, plus, tmp0) ==
  CholUpdateBy(m, xx, dim, kk, plus, DLess(tmp0, mjMINVALD),
               DSqrt(IF DLess(tmp0, mjMINVALD) THEN mjMINVALD ELSE tmp0))

\* lines 102-131: one pass of the loop over k whose test "x[k]" holds;
\* lines 104-105: tmp0 = Lkk*Lkk +/- x[k]*x[k]
CholUpdateColumn(m, xx, dim, kk, plus) ==
  CholUpdatePivot(m, xx, dim, kk, plus,
                  DAdd(DMul(m[kk * (dim + 1)], m[kk * (dim + 1)]),
                       IF plus # 0 THEN DMul(xx[kk], xx[kk])
                       ELSE DNeg(DMul(xx[kk], xx[kk]))))

\* diagonal and off-diagonal entries of the matrices whose factor is updated
UpdDiagVals == {Num(1), Num(4)}

UpdOffVals == {Num(0), Num(2)}

\* entries of the vector x
UpdXVals == {0, 1, 2}

\* the argument mat is a factor left by mju_cholFactor(mat, n, mjMINVAL)
CholUpdateInit ==
  /\ pc = "start"
  /\ err = ""
  /\ n \in 1..MaxDense
  /\ \E dg \in [0..(n - 1) -> UpdDiagVals], lo \in [LowerAdr(n) -> UpdOffVals] :
       mat = mju_cholFactor([a \in 0..(n * n - 1) |-> DNum(SymMat(n, dg, lo)[a])],
                             n, mjMINVALD).mat
  /\ mat0 = mat
  /\ x \in [0..(n - 1) -> {DInt(v) : v \in UpdXVals}]
  /\ flg_plus \in {0, 1}
  /\ rank = 0 /\ j = 0
  /\ mindiag = 0 /\ r = 0 /\ i = 0
  /\ x_ind = 0 /\ x_nnz = 0 /\ new_nnz = 0
  /\ rownnz = 0 /\ rowadr = 0 /\ colind = 0 /\ rownnz0 = 0 /\ colind0 = 0
  /\ IdleLU /\ IdleArena
  /\ IdleDense

\* variables mju_cholUpdate never writes
cholUpdateFrame == <<err, n, mat0, mindiag, r, i, flg_plus, x_ind, x_nnz, new_nnz,
                     rownnz, rowadr, colind, rownnz0, colind0, grpLU, grpArena, grpDense>>

\* lines 98-101: rank = n, enter the loop over k
CholUpdateEnter ==
  /\ pc = "start"
  /\ rank' = n
  /\ j' = 0
  /\ pc' = "upd"
  /\ UNCHANGED <<mat, x, cholUpdateFrame>>

\* the pass c is written to mat, x and rank
CholUpdateWrite(c) ==
  /\ mat' = c.mat
  /\ x' = c.x
  /\ rank' = IF c.low THEN rank - 1 ELSE rank

\* lines 101-132: one pass of the loop over k; nothing is done when x[k] is 0
CholUpdateStep ==
  /\ pc = "upd"
  /\ j < n
  /\ IF x[j] # DZero
     THEN CholUpdateWrite(CholUpdateColumn(mat, x, n, j, flg_plus))
     ELSE UNCHANGED <<mat, x, rank>>
  /\ j' = j + 1
  /\ UNCHANGED <<pc, cholUpdateFrame>>

\* line 134
CholUpdateReturn ==
  /\ pc = "upd"
  /\ j >= n
  /\ pc' = "done"
  /\ UNCHANGED <<mat, x, rank, j, cholUpdateFrame>>

CholUpdateNext == CholUpdateEnter \/ CholUpdateStep \/ CholUpdateReturn

SpecCholUpdate == CholUpdateInit /\ [][CholUpdateNext]_vars

----------------------------------------------------------------------------
(* mju_QCQP2, mju_QCQP3, mju_QCQP *)

\* the literal 1e-10 of the QCQP solvers
Eps == DDiv(DOne, DMul(DInt(100000), DInt(100000)))

\* the Newton loops run "iter<20"
MaxIter == 20

\* b[i] = bin[i]*d[i]
ScaleB(bb, dd, dim) == [k \in 0..(dim - 1) |-> DMul(DNum(bb[k]), DNum(dd[k]))]

\* A[j+i*n] = Ain[j+i*n] * d[i] * d[j]
ScaleA(AA, dd, dim) ==
  [a \in 0..(dim * dim - 1) |->
     DMul(DMul(DNum(AA[a]), DNum(dd[a \div dim])), DNum(dd[a % dim]))]

\* res[i] = res[i] * d[i]
Unscale(v, dd, dim) == [k \in 0..(dim - 1) |-> DMul(v[k], DNum(dd[k]))]

\* the test "det<1e-10" of both the 2D and the 3D variant
DetBelow(det) == DLess(det, Eps)

\* What a pass of a Newton loop finds: whether the zero-result exit is taken,
\* v, val, and delta = -val/deriv; v, val and deriv are not computed when the
\* exit is taken, nor delta when val is below the tolerance
PassResult(zero, v, val, deriv, dim) ==
  [zero |-> zero,
   v |-> IF zero THEN DZeros(dim) ELSE v,
   val |-> IF zero THEN DZero ELSE val,
   delta |-> IF zero \/ DLess(val, Eps) THEN DZero ELSE DDiv(DNeg(val), deriv)]

\* lines 567-578 of mju_QCQP2: val, deriv and delta at v
QCQP2Val(zero, P, v, rr) ==
  PassResult(zero, v,
             DSub(DAdd(DMul(v[0], v[0]), DMul(v[1], v[1])), DMul(rr, rr)),
             DMul(DInt(-2), DAdd(DAdd(DMul(DMul(P.P11, v[0]), v[0]),
                                      DMul(DMul(DMul(DInt(2), P.P12), v[0]), v[1])),
                                 DMul(DMul(P.P22, v[1]), v[1]))),
             2)

\* lines 563-564: v = -P*b
QCQP2V(zero, P, bb, rr) ==
  QCQP2Val(zero, P,
           (0 :> DSub(DMul(DNeg(P.P11), bb[0]), DMul(P.P12, bb[1]))
            @@ 1 :> DSub(DMul(DNeg(P.P12), bb[0]), DMul(P.P22, bb[1]))),
           rr)

\* lines 558-560: P = inv(A+la)
QCQP2Inverse(M, zero, detinv, bb, rr) ==
  QCQP2V(zero,
         [P11 |-> DMul(M.A22, detinv),
          P22 |-> DMul(M.A11, detinv),
          P12 |-> DMul(DNeg(M.A12), detinv)],
         bb, rr)

\* lines 550-557: the exit on det < 1e-10, detinv
QCQP2Det(M, det, bb, rr) == QCQP2Inverse(M, DetBelow(det), DDiv(DOne, det), bb, rr)

\* line 547: det(A+la); M holds A11+la, A22+la and A12
QCQP2Mat(M, bb, rr) ==
  QCQP2Det(M, DSub(DMul(M.A11, M.A22), DMul(M.A12, M.A12)), bb, rr)

\* one pass of the Newton loop of mju_QCQP2 (lines 546-584) at multiplier l:
\* whether the zero-result exit is taken, v, val and delta
QCQP2Pass(AA, bb, l, rr) ==
  QCQP2Mat([A11 |-> DAdd(AA[0], l), A22 |-> DAdd(AA[3], l), A12 |-> AA[1]], bb, rr)

\* lines 654-666 of mju_QCQP3: val, deriv and delta at v
QCQP3Val(zero, P, v, rr) ==
  PassResult(zero, v,
             DSub(DAdd(DAdd(DMul(v[0], v[0]), DMul(v[1], v[1])), DMul(v[2], v[2])),
                  DMul(rr, rr)),
             DSub(DMul(DInt(-2),
                       DAdd(DAdd(DMul(DMul(P.P11, v[0]), v[0]), DMul(DMul(P.P22, v[1]), v[1])),
                            DMul(DMul(P.P33, v[2]), v[2]))),
                  DMul(DInt(4),
                       DAdd(DAdd(DMul(DMul(P.P12, v[0]), v[1]), DMul(DMul(P.P13, v[0]), v[2])),
                            DMul(DMul(P.P23, v[1]), v[2])))),
             3)

\* lines 649-651: v = -P*b
QCQP3V(zero, P, bb, rr) ==
  QCQP3Val(zero, P,
           (0 :> DSub(DSub(DMul(DNeg(P.P11), bb[0]), DMul(P.P12, bb[1])), DMul(P.P13, bb[2]))
            @@ 1 :> DSub(DSub(DMul(DNeg(P.P12), bb[0]), DMul(P.P22, bb[1])), DMul(P.P23, bb[2]))
            @@ 2 :> DSub(DSub(DMul(DNeg(P.P13), bb[0]), DMul(P.P23, bb[1])), DMul(P.P33, bb[2]))),
           rr)

\* lines 641-646: final P; U is the unscaled P
QCQP3Inverse(U, zero, detinv, bb, rr) ==
  QCQP3V(zero,
         [P11 |-> DMul(U.U11, detinv), P22 |-> DMul(U.U22, detinv),
          P33 |-> DMul(U.U33, detinv), P12 |-> DMul(U.U12, detinv),
          P13 |-> DMul(U.U13, detinv), P23 |-> DMul(U.U23, detinv)],
         bb, rr)

\* lines 630-638: the exit on det < 1e-10, detinv
QCQP3Det(U, det, bb, rr) == QCQP3Inverse(U, DetBelow(det), DDiv(DOne, det), bb, rr)

\* line 627: det(A+la) from the unscaled P, here U
QCQP3Cofactors(M, U, bb, rr) ==
  QCQP3Det(U, DAdd(DAdd(DMul(M.A11, U.U11), DMul(M.A12, U.U12)), DMul(M.A13, U.U13)),
           bb, rr)

\* lines 619-624: unscaled P, here U; M holds A11+la, A22+la, A33+la and
\* the off-diagonal entries
QCQP3Mat(M, bb, rr) ==
  QCQP3Cofactors(M,
                 [U11 |-> DSub(DMul(M.A22, M.A33), DMul(M.A23, M.A23)),
                  U22 |-> DSub(DMul(M.A11, M.A33), DMul(M.A13, M.A13)),
                  U33 |-> DSub(DMul(M.A11, M.A22), DMul(M.A12, M.A12)),
                  U12 |-> DSub(DMul(M.A13, M.A23), DMul(M.A12, M.A33)),
                  U13 |-> DSub(DMul(M.A12, M.A23), DMul(M.A13, M.A22)),
                  U23 |-> DSub(DMul(M.A12, M.A13), DMul(M.A23, M.A11))],
                 bb, rr)

\* one pass of the Newton loop of mju_QCQP3 (lines 618-672)
QCQP3Pass(AA, bb, l, rr) ==
  QCQP3Mat([A11 |-> DAdd(AA[0], l), A22 |-> DAdd(AA[4], l), A33 |-> DAdd(AA[8], l),
            A12 |-> AA[1], A13 |-> AA[2], A23 |-> AA[5]],
           bb, rr)

\* lines 727-739 of mju_QCQP: val, deriv from the second solve, delta
QCQPVal(f, v, rr, dim) ==
  PassResult(f.rank < dim, v,
             DSub(mju_dotD(v, v, dim), DMul(rr, rr)),
             DMul(DInt(-2), mju_dotD(v, mju_cholSolve(f.mat, v, dim), dim)),
             dim)

\* line 724: res = -sol
QCQPSolved(f, sol, rr, dim) ==
  QCQPVal(f, [k \in 0..(dim - 1) |-> DMul(sol[k], DInt(-1))], rr, dim)

\* lines 717-723: the factor f of A+la, solved for b unless its rank is low
QCQPFactored(f, bb, rr, dim) ==
  QCQPSolved(f, mju_cholSolve(f.mat, bb, dim), rr, dim)

\* one pass of the Newton loop of mju_QCQP (lines 710-745)
QCQPPass(AA, bb, l, rr, dim) ==
  QCQPFactored(mju_cholFactor([a \in DOMAIN AA |->
                                  IF a \div dim = a % dim THEN DAdd(AA[a], l) ELSE AA[a]],
                               dim, Eps),
               bb, rr, dim)

\* values of the entries of the QCQP inputs
QDiagVals == {Num(-2), Num(-1), Num(4)}

\* the off-diagonal entries: 0 or 1 in 2D, 0 in 3D
QOffVals(dim) == IF dim = 2 THEN {Num(0), Num(1)} ELSE {Num(0)}

QBVals == {Num(0), Num(8)}

QRVals == {Num(1), Num(2)}

\* an entry of b so far outside the ellipsoid that twenty Newton updates do
\* not bring v back to it
QFarB == Num(8192)

\* no exit taken yet
NoExit == [exit |-> "none", iter |-> 0]

\* lines 534, 602: v1, v2 (v3) are declared without a value; until the loop
\* assigns them the model's res, which holds v up to "undo scaling", is empty
Unassigned == <<>>

QCQPInit ==
  /\ pc = "start"
  /\ err = ""
  /\ n \in {2, 3}
  /\ \/ /\ \E dg \in [0..(n - 1) -> QDiagVals], lo \in [LowerAdr(n) -> QOffVals(n)] :
            Ain = SymMat(n, dg, lo)
        /\ bin \in [0..(n - 1) -> QBVals]
     \/ /\ Ain = SymMat(n, [k \in 0..(n - 1) |-> Num(4)], [a \in LowerAdr(n) |-> Num(0)])
        /\ bin = [k \in 0..(n - 1) |-> IF k = 0 THEN QFarB ELSE Num(0)]
  /\ d = [k \in 0..(n - 1) |-> Num(1)]
  /\ r \in QRVals
  /\ A = Ain /\ bvec = bin
  /\ la = DZero /\ iter = 0 /\ la_moved = FALSE
  /\ res = DZeros(n)
  /\ ret = 0
  /\ variant = "none"
  /\ taken = NoExit
  /\ first = 0
  /\ mat = 0 /\ mat0 = 0 /\ mindiag = 0 /\ rank = 0 /\ i = 0 /\ j = 0
  /\ IdleSparse
  /\ IdleEig

qFrame == <<err, n, mat, mat0, mindiag, rank, r, i, j, Ain, bin, d, grpSparse, grpEig>>

\* where a variant returns to: the 2D and 3D variants to the caller that then
\* calls mju_QCQP on the same arguments, mju_QCQP to the end of the run
ReturnTo == IF variant = "QCQP" THEN "done" ELSE "returned"

\* mutant: the "inside constraint set" break is tested before v is assigned
NewtonStepBreakBeforeV(p) ==
  IF p.zero
  THEN /\ res' = DZeros(n)
       /\ ret' = 0
       /\ taken' = [exit |-> "zero", iter |-> iter]
       /\ pc' = ReturnTo
       /\ UNCHANGED <<la, iter, la_moved>>
  ELSE IF DLess(p.val, Eps)
  THEN /\ taken' = [exit |-> "val", iter |-> iter]
       /\ pc' = "undo"
       /\ UNCHANGED <<res, ret, la, iter, la_moved>>
  ELSE IF DLess(p.delta, Eps)
  THEN /\ res' = p.v
       /\ taken' = [exit |-> "delta", iter |-> iter]
       /\ pc' = "undo"
       /\ UNCHANGED <<ret, la, iter, la_moved>>
  ELSE /\ res' = p.v
       /\ la' = DAdd(la, p.delta)
       /\ la_moved' = TRUE
       /\ iter' = iter + 1
       /\ IF iter + 1 < MaxIter
          THEN UNCHANGED <<pc, taken>>
          ELSE pc' = "undo" /\ taken' = [exit |-> "iters", iter |-> iter + 1]
       /\ UNCHANGED ret

\* the part of the Newton loop the three variants share, given the pass p:
\* the zero-result exit, the two breaks, the update of la and the loop bound
NewtonStep(p) ==
  IF p.zero
  THEN /\ res' = DZeros(n)
       /\ ret' = 0
       /\ taken' = [exit |-> "zero", iter |-> iter]
       /\ pc' = ReturnTo
       /\ UNCHANGED <<la, iter, la_moved>>
  ELSE IF DLess(p.val, Eps) \/ DLess(p.delta, Eps)
  THEN /\ res' = p.v
       /\ taken' = [exit |-> IF DLess(p.val, Eps) THEN "val" ELSE "delta", iter |-> iter]
       /\ pc' = "undo"
       /\ UNCHANGED <<ret, la, iter, la_moved>>
  ELSE /\ res' = p.v
       /\ la' = DAdd(la, p.delta)
       /\ la_moved' = TRUE
       /\ iter' = iter + 1
       /\ IF iter + 1 < MaxIter
          THEN UNCHANGED <<pc, taken>>
          ELSE pc' = "undo" /\ taken' = [exit |-> "iters", iter |-> iter + 1]
       /\ UNCHANGED ret

\* lines 537-545
QCQP2Enter ==
  /\ pc = "start" /\ n = 2
  /\ bvec' = ScaleB(bin, d, 2)
  /\ A' = ScaleA(Ain, d, 2)
  /\ la' = DZero /\ iter' = 0
  /\ variant' = "QCQP2"
  /\ res' = Unassigned
  /\ pc' = "newton"
  /\ UNCHANGED <<ret, la_moved, taken, first, qFrame>>

\* lines 545-585
QCQP2Newton ==
  /\ pc = "newton" /\ variant = "QCQP2"
  /\ NewtonStep(QCQP2Pass(A, bvec, la, DNum(r)))
  /\ UNCHANGED <<A, bvec, variant, first, qFrame>>

\* lines 587-591; reading v1, v2 without a value is undefined behaviour ("ub")
QCQP2Return ==
  /\ pc = "undo" /\ variant = "QCQP2"
  /\ IF res = Unassigned
     THEN pc' = "ub" /\ UNCHANGED <<res, ret>>
     ELSE /\ res' = Unscale(res, d, 2)
          /\ ret' = IF la # DZero THEN 1 ELSE 0
          /\ pc' = ReturnTo
  /\ UNCHANGED <<A, bvec, la, iter, variant, la_moved, taken, first, qFrame>>

\* lines 605-616
QCQP3Enter ==
  /\ pc = "start" /\ n = 3
  /\ bvec' = ScaleB(bin, d, 3)
  /\ A' = ScaleA(Ain, d, 3)
  /\ la' = DZero /\ iter' = 0
  /\ variant' = "QCQP3"
  /\ res' = Unassigned
  /\ pc' = "newton"
  /\ UNCHANGED <<ret, la_moved, taken, first, qFrame>>

\* lines 617-673
QCQP3Newton ==
  /\ pc = "newton" /\ variant = "QCQP3"
  /\ NewtonStep(QCQP3Pass(A, bvec, la, DNum(r)))
  /\ UNCHANGED <<A, bvec, variant, first, qFrame>>

\* lines 675-680; reading v1, v2, v3 without a value is undefined behaviour
QCQP3Return ==
  /\ pc = "undo" /\ variant = "QCQP3"
  /\ IF res = Unassigned
     THEN pc' = "ub" /\ UNCHANGED <<res, ret>>
     ELSE /\ res' = Unscale(res, d, 3)
          /\ ret' = IF la # DZero THEN 1 ELSE 0
          /\ pc' = ReturnTo
  /\ UNCHANGED <<A, bvec, la, iter, variant, la_moved, taken, first, qFrame>>

\* lines 688-708: mju_QCQP is called with the arguments the 2D/3D variant was
\* called with; the outcome of that call is kept in `first`
QCQPEnter ==
  /\ pc = "returned"
  /\ first' = [ret |-> ret, taken |-> taken, la_moved |-> la_moved, res |-> res]
  /\ variant' = "QCQP"
  /\ IF n > 5
     THEN /\ err' = "mju_QCQP supports n up to 5"
          /\ pc' = "error"
          /\ UNCHANGED <<A, bvec, la, iter, res, ret, la_moved, taken>>
     ELSE /\ bvec' = ScaleB(bin, d, n)
          /\ A' = ScaleA(Ain, d, n)
          /\ la' = DZero /\ iter' = 0 /\ la_moved' = FALSE
          /\ res' = DZeros(n)
          /\ ret' = 0
          /\ taken' = NoExit
          /\ pc' = "newton"
          /\ err' = err
  /\ UNCHANGED <<n, mat, mat0, mindiag, rank, r, i, j, Ain, bin, d, grpSparse, grpEig>>

\* lines 709-746
QCQPNewton ==
  /\ pc = "newton" /\ variant = "QCQP"
  /\ NewtonStep(QCQPPass(A, bvec, la, DNum(r), n))
  /\ UNCHANGED <<A, bvec, variant, first, qFrame>>

\* lines 748-753
QCQPReturn ==
  /\ pc = "undo" /\ variant = "QCQP"
  /\ res' = Unscale(res, d, n)
  /\ ret' = IF la # DZero THEN 1 ELSE 0
  /\ pc' = ReturnTo
  /\ UNCHANGED <<A, bvec, la, iter, variant, la_moved, taken, first, qFrame>>

QCQPNext ==
  \/ QCQP2Enter \/ QCQP2Newton \/ QCQP2Return
  \/ QCQP3Enter \/ QCQP3Newton \/ QCQP3Return
  \/ QCQPEnter \/ QCQPNewton \/ QCQPReturn

SpecQCQP == QCQPInit /\ [][QCQPNext]_vars

----------------------------------------------------------------------------
(* mju_solveLUSparse: compressed layout, as mju_factorLUSparse              *)

\* a vector of dim zeros
Zeros(dim) == [k \in 0..(dim - 1) |-> 0]

\* values of the right-hand side
VecVals == {Num(1), Num(2)}

SolveLUInit ==
  /\ pc = "start"
  /\ err = ""
  /\ n \in 1..MaxN
  /\ \E rows \in [0..(n - 1) -> SUBSET (0..(n - 1))] :
       LET cnt == [k \in 0..(n - 1) |-> Cardinality(rows[k])]
           size == SumTo(cnt, n)
       IN /\ rownnz = cnt
          /\ rowadr = [k \in 0..(n - 1) |-> SumTo(cnt, k)]
          /\ colind = [a \in 0..(size - 1) |->
                         SortedSeq(rows[RowOf(cnt, a)])[a - SumTo(cnt, RowOf(cnt, a)) + 1]]
          /\ LU = [a \in 0..(size - 1) |->
                     LUEntryVal(RowOf(cnt, a),
                                SortedSeq(rows[RowOf(cnt, a)])[a - SumTo(cnt, RowOf(cnt, a)) + 1],
                                NoCol)]
  /\ vec \in [0..(n - 1) -> VecVals]
  /\ res = Zeros(n)
  /\ LU0 = LU
  /\ rownnz0 = rownnz
  /\ colind0 = colind
  /\ remaining = 0
  /\ i = 0
  /\ j = 0
  /\ mat = 0 /\ mat0 = 0 /\ mindiag = 0 /\ rank = 0 /\ r = 0
  /\ IdleUS
  /\ IdleArena
  /\ IdleEig
  /\ Ain = 0 /\ bin = 0 /\ d = 0 /\ A = 0 /\ bvec = 0 /\ la = 0 /\ iter = 0
  /\ ret = 0 /\ variant = 0 /\ la_moved = 0 /\ taken = 0 /\ first = 0

\* variables mju_solveLUSparse never writes
solveFrame == <<n, rownnz, rowadr, colind, LU, LU0, remaining, vec, rownnz0, colind0,
                mat, mat0, mindiag, rank, r, grpUS, grpArena, grpEig,
                Ain, bin, d, A, bvec, la, iter, ret, variant, la_moved, taken, first>>

\* line 386: i = n-1
SolveLUEnter ==
  /\ pc = "start"
  /\ i' = n - 1
  /\ pc' = "urow"
  /\ UNCHANGED <<err, res, j, solveFrame>>

\* lines 386-391: res[i] = vec[i], j = rownnz[i]-1
SolveURow ==
  /\ pc = "urow"
  /\ i >= 0
  /\ res' = [res EXCEPT ![i] = vec[i]]
  /\ j' = rownnz[i] - 1
  /\ pc' = "uwalk"
  /\ UNCHANGED <<err, i, solveFrame>>

\* lines 392-395: one test of the while loop of the U pass, and its body when
\* the test holds; reading colind outside the array is undefined behaviour ("ub")
SolveUWalk ==
  /\ pc = "uwalk"
  /\ LET a == rowadr[i] + j
     IN IF a \notin DOMAIN colind
        THEN pc' = "ub" /\ UNCHANGED <<res, j>>
        ELSE IF colind[a] > i
        THEN /\ res' = [res EXCEPT ![i] = res[i] - FMul(res[colind[a]], LU[a])]
             /\ j' = j - 1
             /\ pc' = pc
        ELSE pc' = "ucheck" /\ UNCHANGED <<res, j>>
  /\ UNCHANGED <<err, i, solveFrame>>

\* lines 398-400: j must point to the diagonal of row i
SolveUCheck ==
  /\ pc = "ucheck"
  /\ IF colind[rowadr[i] + j] # i
     THEN pc' = "error" /\ err' = "diagonal of U not reached in mju_factorLUSparse" /\ i' = i
     ELSE pc' = "urow" /\ err' = err /\ i' = i - 1
  /\ UNCHANGED <<res, j, solveFrame>>

\* lines 386, 404: the U pass is over, i = 0
SolveUEnd ==
  /\ pc = "urow"
  /\ i < 0
  /\ i' = 0
  /\ pc' = "lrow"
  /\ UNCHANGED <<err, res, j, solveFrame>>

\* lines 404-406: j = 0
SolveLRow ==
  /\ pc = "lrow"
  /\ i < n
  /\ j' = 0
  /\ pc' = "lwalk"
  /\ UNCHANGED <<err, res, i, solveFrame>>

\* lines 407-410: one test of the while loop of the L pass, and its body when
\* the test holds
SolveLWalk ==
  /\ pc = "lwalk"
  /\ LET a == rowadr[i] + j
     IN IF a \notin DOMAIN colind
        THEN pc' = "ub" /\ UNCHANGED <<res, j>>
        ELSE IF colind[a] < i
        THEN /\ res' = [res EXCEPT ![i] = res[i] - FMul(res[colind[a]], LU[a])]
             /\ j' = j + 1
             /\ pc' = pc
        ELSE pc' = "ldiv" /\ UNCHANGED <<res, j>>
  /\ UNCHANGED <<err, i, solveFrame>>

\* line 413: res[i] /= LU[rowadr[i]+j]
SolveLDiv ==
  /\ pc = "ldiv"
  /\ res' = [res EXCEPT ![i] = FDiv(res[i], LU[rowadr[i] + j])]
  /\ pc' = "lcheck"
  /\ UNCHANGED <<err, i, j, solveFrame>>

\* lines 416-418: j must point to the diagonal of row i
SolveLCheck ==
  /\ pc = "lcheck"
  /\ IF colind[rowadr[i] + j] # i
     THEN pc' = "error" /\ err' = "diagonal of L not reached in mju_factorLUSparse" /\ i' = i
     ELSE pc' = "lrow" /\ err' = err /\ i' = i + 1
  /\ UNCHANGED <<res, j, solveFrame>>

\* lines 404, 420: the L pass is over
SolveLUReturn ==
  /\ pc = "lrow"
  /\ i >= n
  /\ pc' = "done"
  /\ UNCHANGED <<err, res, i, j, solveFrame>>

SolveLUNext ==
  \/ SolveLUEnter \/ SolveURow \/ SolveUWalk \/ SolveUCheck \/ SolveUEnd
  \/ SolveLRow \/ SolveLWalk \/ SolveLDiv \/ SolveLCheck \/ SolveLUReturn

SpecSolveLU == SolveLUInit /\ [][SolveLUNext]_vars

----------------------------------------------------------------------------
(* The iterative loops: mju_cholUpdateSparse, the Newton loops, mju_eig3      *)

\* the routine a run is in: only the QCQP solvers have a radius r, and only
\* mju_eig3 has no dimension n
RunsQCQP == r # 0

RunsEig3 == n = 0

RunsUS == n >= 1 /\ r = 0

LoopsInit == USInit \/ QCQPInit \/ Eig3Init

LoopsNext ==
  \/ RunsUS /\ USNext
  \/ RunsQCQP /\ QCQPNext
  \/ RunsEig3 /\ Eig3Next

\* a run of one of the routines with an iterative loop
SpecLoops == LoopsInit /\ [][LoopsNext]_vars

----------------------------------------------------------------------------
(* Claims about mju_cholFactorSparse *)

\* the call has left the routine: normal return or fatal exit through mju_error
Exited == pc \in {"done", "error"}

\* positions of the back pass of mju_cholFactorSparse, and after it
FSBackPass == pc \in {"diag", "combine", "free", "done"}

\* C1 (as claimed): on every exit path of the call, normal return or fatal
\* mju_error exit, the arena's stack top is back at its value at call entry.
C1_StackRestoredOnEveryExit == Exited => pstack = pstack0

\* C5 (as claimed): at every step of mju_cholFactorSparse, every row's rownnz is
\* at most the value it had at call entry.
C5_RowNnzNeverGrows == \A c \in 0..(n - 1) : rownnz[c] <= rownnz0[c]

\* C5 (amended): in the shrink loop rownnz[c] never exceeds its entry value; in
\* the back pass fill-in may raise rownnz[c] above its entry value, but never
\* above c + 1, the columns 0..c, which fit the n slots of the row.
C5_RowNnzBounded ==
  /\ pc \in {"start", "shrink", "error"} => \A c \in 0..(n - 1) : rownnz[c] <= rownnz0[c]
  /\ FSBackPass => \A c \in 0..(n - 1) : rownnz[c] <= c + 1 /\ rownnz[c] <= n

\* C5 witness: the back pass has raised a row's count above its entry value
C5_FillInHappened == pc = "done" /\ \E c \in 0..(n - 1) : rownnz[c] > rownnz0[c]

\* C6: either a row stores no entry on its diagonal and the call ends in the
\* fatal "non-zero diagonal" error with mat untouched, or every row ends exactly
\* at its diagonal from the end of the shrink loop on, through every step of
\* the back pass and on return.
C6_RowsEndAtDiagonal ==
  /\ pc = "error" =>
       /\ mat = mat0
       /\ \E row \in 0..(n - 1) : row \notin RowCols(rownnz0, colind0, row)
  /\ FSBackPass =>
       /\ \A row \in 0..(n - 1) : row \in RowCols(rownnz0, colind0, row)
       /\ \A row \in 0..(n - 1) :
            rownnz[row] >= 1 /\ colind[rowadr[row] + rownnz[row] - 1] = row

\* C6 witness: in the back pass, a combine has just rewritten a row that had
\* entries right of its diagonal on entry
C6_CombinedInBackPass ==
  /\ pc = "combine" /\ i >= 1
  /\ \E row \in 0..(n - 1) : rownnz0[row] > rownnz[row]

----------------------------------------------------------------------------
(* Claims about mju_cholUpdateSparse *)

\* C1, on mju_cholUpdateSparse: the same statement, violated on the
\* "Varying sparsity pattern" exit
StackRestoredOnEveryExitUS == Exited => pstack = pstack0

\* C4: mju_cholUpdateSparse never changes the sparsity pattern of mat: rownnz
\* is never written, on every normal return (and at every step before it) the
\* stored column indices are those of call entry, and a row combine whose
\* result has a count other than nnz-1 ends the call in the fatal
\* "Varying sparsity pattern" error.
C4_PatternUnchanged ==
  /\ rownnz = rownnz0
  /\ pc # "error" => colind = colind0
  /\ pc = "error" =>
       /\ err = "Varying sparsity pattern in mju_cholUpdateSparse"
       /\ new_nnz # rownnz[x_ind[i]] - 1

\* C4 witness: a normal return after x, with two or more entries, was combined
\* into rows of mat
C4_UpdatedAndReturned == pc = "done" /\ x_nnz >= 2 /\ mat # mat0

----------------------------------------------------------------------------
(* Claims about mju_factorLUSparse *)

\* the columns left of column k stored in a row of the entry pattern
ColsBelow(row, k) == {c \in RowCols(rownnz0, colind0, row) : c < k}

\* row j < i stores an entry in column i: row i is eliminated from row j
Eliminated(jj, ii) == jj < ii /\ ii \in RowCols(rownnz0, colind0, jj)

\* C2 (as claimed): a normal return means that for every row i eliminated from
\* a row j the two rows store exactly the same columns left of i; a column in
\* only one of them is fatal.  The routine adds no stored entry.
C2_RemainingColumnsIdentical ==
  /\ rownnz = rownnz0 /\ colind = colind0
  /\ pc = "done" =>
       \A ii \in 0..(n - 1), jj \in 0..(n - 1) :
          Eliminated(jj, ii) => ColsBelow(ii, ii) = ColsBelow(jj, ii)

\* C2 (amended): a column left of i stored in row i but not in row j is fatal;
\* a column stored in row j but not in row i is skipped without error.  The
\* routine adds no stored entry.
C2_RowIColumnsCovered ==
  /\ rownnz = rownnz0 /\ colind = colind0
  /\ pc = "done" =>
       \A ii \in 0..(n - 1), jj \in 0..(n - 1) :
          Eliminated(jj, ii) => ColsBelow(ii, ii) \subseteq ColsBelow(jj, ii)

\* C2 witness: a normal return after a row i with columns left of its diagonal
\* was eliminated from a row j
C2_EliminatedAndReturned ==
  /\ pc = "done"
  /\ \E ii \in 0..(n - 1), jj \in 0..(n - 1) :
        Eliminated(jj, ii) /\ ColsBelow(ii, ii) # {}

\* C3 (as claimed): when the call ends in the "requires fill-in" error the LU
\* value buffer is the one of call entry.
C3_NoMutationAtFillInError ==
  pc = "error" /\ err = "mju_factorLUSparse requires fill-in" => LU = LU0

----------------------------------------------------------------------------
(* Claims about mju_cholFactor *)

\* the pivot of column c as the routine computed it: the input diagonal minus
\* the squares of the factor's row c left of the diagonal
PivotOf(c) == mat0[c * (n + 1)] - (IF c > 0 THEN mju_dot(Row(mat, n, c), Row(mat, n, c), c) ELSE 0)

\* the columns already factored whose pivot was below mindiag
LowColumns == {c \in 0..(j - 1) : PivotOf(c) < mindiag}

\* C10: mju_cholFactor never fails; after every column, and on return, rank
\* is n minus the number of factored columns whose pivot was below mindiag,
\* so 0 <= rank <= n; such a column's diagonal is the square root of mindiag,
\* and a column whose pivot is >= mindiag keeps the square root of its pivot.
C10_RankCountsLowPivots ==
  /\ pc # "error" /\ err = ""
  /\ pc \in {"col", "done"} =>
       /\ rank = n - Cardinality(LowColumns)
       /\ 0 <= rank /\ rank <= n
       /\ \A c \in 0..(j - 1) :
            mat[c * (n + 1)] = mju_sqrt(IF PivotOf(c) < mindiag THEN mindiag ELSE PivotOf(c))
  /\ pc = "done" => j = n

\* a 3 x 3 factorisation has returned with some pivots corrected and some not
C10_ReturnedRankDeficient ==
  pc = "done" /\ n = 3 /\ 0 < rank /\ rank < n /\ LowColumns # {} /\ mat # mat0

----------------------------------------------------------------------------
(* Claims about the sort of mju_eig3 *)

\* how often the value v occurs among the three eigenvalues f
Occurs(f, v) == Cardinality({k \in 0..2 : f[k] = v})

\* the pass has returned sorted, with the values it started from
EigSorted ==
  pc = "done" =>
    /\ DGeq(eigval[0], eigval[1]) /\ DGeq(eigval[1], eigval[2])
    /\ \A k \in 0..2 : /\ Occurs(eigval, eigval0[k]) = Occurs(eigval0, eigval0[k])
                        /\ Occurs(eigval0, eigval[k]) = Occurs(eigval, eigval[k])

\* a step that exchanges two values or turns quat found the left value of the
\* pair it compares strictly smaller than the right one, and does both
EigSwapOnlyWhenSmaller ==
  (eigval' # eigval \/ quat' # quat) =>
    /\ DLess(eigval[j % 2], eigval[(j % 2) + 1])
    /\ eigval' = [eigval EXCEPT ![j % 2] = eigval[(j % 2) + 1],
                                ![(j % 2) + 1] = eigval[j % 2]]
    /\ quat' = RotateQuat(quat, j % 2)
    /\ quat' # quat

\* C9: for any three values left by the Jacobi loop, the pass over the pairs
\* 0-1, 1-2, 0-1 returns eigval[0] >= eigval[1] >= eigval[2], a permutation of
\* the values before the pass, and swaps (turning quat) only when the left
\* value is strictly smaller than the right one.
C9_SortedPermutationStrictSwaps == []EigSorted /\ [][EigSwapOnlyWhenSmaller]_vars

\* the pass returned after swapping at all three comparisons: the values
\* were in strictly increasing order and are now reversed, and quat has turned
C9_ThreeSwapsDone ==
  /\ pc = "done"
  /\ DLess(eigval0[0], eigval0[1]) /\ DLess(eigval0[1], eigval0[2])
  /\ eigval = [k \in 0..2 |-> eigval0[2 - k]]
  /\ quat # UnitQuat

----------------------------------------------------------------------------
(* Claims about mju_QCQP2, mju_QCQP3, mju_QCQP *)

\* a variant has just returned
QReturned == pc \in {"returned", "done"}

\* C7 (as claimed): for each of the three variants and on every exit path, the
\* zero-result exit included, the value returned is 0 exactly when la stayed
\* at 0 for the whole call and 1 exactly when a Newton update moved la.
C7_ReturnTellsWhetherLambdaMoved ==
  QReturned => (ret = 1 <=> la_moved) /\ (ret = 0 <=> ~la_moved)

\* C8 (as claimed): on the same arguments the 2D (3D) variant and mju_QCQP
\* with n = 2 (n = 3) take the same exit, the zero-result exit by both or by
\* neither and at the same iteration, and return the same flag.
C8_VariantsAgree ==
  pc = "done" =>
    /\ first.ret = ret
    /\ (first.taken.exit = "zero") <=> (taken.exit = "zero")
    /\ taken.exit = "zero" => first.taken.iter = taken.iter

----------------------------------------------------------------------------
(* Claims about mju_solveLUSparse *)

\* the walk of row i is about to read, or has last read, the entry at offset j
SolveAtEntry == pc \in {"uwalk", "ucheck", "lwalk", "ldiv", "lcheck"}

\* row k stores an entry with column index k
StoresDiag(k) ==
  \E o \in 0..(rownnz[k] - 1) : colind[rowadr[k] + o] = k

\* C11: both passes read only the stored entries of the row they walk (offsets
\* 0 .. rownnz[i]-1 from rowadr[i]); a row without a stored diagonal entry
\* ends the call in the fatal error, so the call returns only if every row
\* stores its diagonal; and in the L pass res[i] has been divided by the
\* diagonal entry of row i alone when the diagonal check is made
C11_WalkStaysInRowAndDividesByDiagonal ==
  /\ SolveAtEntry => 0 <= j /\ j < rownnz[i]
  /\ pc = "ub" => FALSE
  /\ pc = "done" => \A k \in 0..(n - 1) : StoresDiag(k)
  /\ pc = "lcheck" => colind[rowadr[i] + j] = i

----------------------------------------------------------------------------
(* Claims about the Jacobi loop of mju_eig3 *)

\* the magnitudes of the three off-diagonal candidates D[0,1], D[0,2], D[1,2]
OffMags == {DAbs(D[1]), DAbs(D[2]), DAbs(D[5])}

\* the selection of the current iteration has been made
Picked == pc \in {"picked", "schur"}

\* the selected entry has the largest magnitude: it is one of the three and
\* none of them exceeds it; and rotk is the third index
LargestPicked ==
  Picked =>
    /\ rk \in 0..2 /\ ck \in 0..2 /\ rk # ck
    /\ DAbs(D[3 * rk + ck]) \in OffMags
    /\ \A m \in OffMags : ~DLess(DAbs(D[3 * rk + ck]), m)
    /\ rotk \in 0..2 /\ rotk # rk /\ rotk # ck

\* the tolerance break is taken exactly when all three magnitudes are below eigEPS
ToleranceBreakExact ==
  pc = "picked" => ((pc' = "sort") <=> (\A m \in OffMags : DLess(m, eigEPS)))

\* C14: in every iteration the selected off-diagonal entry D[rk,ck] has the
\* largest magnitude of the three candidates, ties included, rotk is the index
\* different from rk and ck, and the loop is left by the tolerance break
\* exactly when all three off-diagonal magnitudes are below eigEPS
C14_LargestPickedAndToleranceBreak == []LargestPicked /\ [][ToleranceBreakExact]_vars

\* an iteration has selected among candidates of which two tie for the
\* largest magnitude with opposite signs
C14_PickedOnTie ==
  /\ pc = "schur"
  /\ DAbs(D[1]) = DAbs(D[5]) /\ D[1] # D[5]
  /\ DLess(DAbs(D[2]), DAbs(D[1]))

----------------------------------------------------------------------------
(* Claims about the Newton loops of mju_QCQP2 and mju_QCQP3 *)

\* the 2D or the 3D variant is at its "undo scaling" statements
AtUndoScaling == pc = "undo" /\ variant \in {"QCQP2", "QCQP3"}

\* v as one pass of the variant being run computes it for the multiplier l
VFor(l) ==
  IF variant = "QCQP2" THEN QCQP2Pass(A, bvec, l, DNum(r)).v
  ELSE QCQP3Pass(A, bvec, l, DNum(r)).v

\* C13: whenever mju_QCQP2 or mju_QCQP3 reaches "undo scaling", v has been
\* assigned by an iteration of the current call: after the "inside constraint
\* set" break it is the v computed in the iteration of the break, the first
\* included; after the small-step break it is the v computed for the lambda
\* the call ends with; v is never read without a value; and the exit taken
\* when the determinant is below the threshold returns zeros without reading v
C13_VAssignedBeforeUndoScaling ==
  /\ AtUndoScaling =>
       /\ res # Unassigned
       /\ DOMAIN res = 0..(n - 1)
       /\ taken.exit \in {"val", "delta", "iters"}
       /\ taken.exit \in {"val", "delta"} => res = VFor(la)
       /\ taken.exit = "iters" => taken.iter = MaxIter
  /\ pc # "ub"
  /\ pc = "returned" /\ taken.exit = "zero" => res = DZeros(n)

\* the first iteration finds the initial point inside the constraint set and
\* leaves the loop by the break
C13_FeasibleAtFirstIteration ==
  /\ AtUndoScaling
  /\ taken.exit = "val"
  /\ taken.iter = 0
  /\ la = DZero

----------------------------------------------------------------------------
(* Claims about the bounds of the iterative loops *)

\* the body of the Jacobi loop runs with iter below the cap, and the value
\* returned, iter, lies in 0..JacobiCap
JacobiBounded ==
  RunsEig3 =>
    /\ iter \in 0..JacobiCap
    /\ pc \in {"picked", "schur"} => iter < JacobiCap

\* the body of a Newton loop runs with iter below MaxIter
NewtonBounded ==
  RunsQCQP =>
    /\ iter \in 0..MaxIter
    /\ pc = "newton" => iter < MaxIter
    /\ pc = "undo" /\ taken.exit = "iters" => iter = MaxIter

\* the while loop of mju_cholUpdateSparse is at an entry of x with a row index
BackPassInRange ==
  RunsUS /\ pc = "loop" /\ i >= 0 => i <= n - 1 /\ x_ind[i] \in 0..(n - 1)

\* from one iteration of the while loop to the next the row index x_ind[i]
\* strictly decreases
RowIndexDecreases ==
  RunsUS /\ pc = "loop" /\ pc' = "loop" /\ i' >= 0 => x_ind'[i'] < x_ind[i]

\* C12: every iterative loop ends within a fixed bound: the Jacobi loop runs
\* at most JacobiCap (500) iterations and returns a count in 0..500, the
\* Newton loops run at most MaxIter (20) iterations, and the while loop of
\* mju_cholUpdateSparse processes rows of strictly decreasing index x_ind[i],
\* all in 0..n-1, and so ends after at most n iterations
C12_LoopsBounded ==
  [](JacobiBounded /\ NewtonBounded /\ BackPassInRange) /\ [][RowIndexDecreases]_vars

\* the while loop has reset its index after x gained entries: x now has more
\* entries than on entry
C12_IndexResetAfterGain ==
  /\ RunsUS
  /\ pc = "loop"
  /\ i >= x_nnz
  /\ x_nnz >= 1

============================================================================
